---- MODULE Spec2Model ----
(***************************************************************************)
(* Model of the artist-graph backend of anrmap: POST /map and the          *)
(* optimized buildArtistGraph (routes/map.js), on top of the Last.fm       *)
(* client (services/lastfm.js): cache-first getArtistInfo and              *)
(* getSimilarArtists, whose upstream calls are answered by the request     *)
(* queue one at a time in queue order.                                     *)
(*                                                                         *)
(* Names are sequences of one-character strings, so that toLowerCase and   *)
(* the template strings that build edge ids are computed, not assumed.     *)
(* Similarity scores are kept in hundredths (0.81 is 81); the scores used  *)
(* are perfect squares, so the square root of a product is exact.          *)
(***************************************************************************)
EXTENDS Integers, Sequences, FiniteSets, TLC

VARIABLES
    url,            \* request body: the artist input
    depth,          \* request body: 1 or 2
    limit,          \* request body: fan-out limit
    canon,          \* upstream: which autocorrect directory Last.fm applies
    catalogue,      \* upstream: which similarity catalogue Last.fm serves
    cache,          \* memoryCache / redis: key -> cached value
    failures,       \* number of upstream calls that failed so far
    pc,             \* position of the POST /map handler
    status,         \* HTTP status of the reply (0: not replied yet)
    rootArtistName, \* parseArtistInput(url)
    caught,         \* the error the handler's catch block received
    rootFetch,      \* the two fetches of Promise.all([getArtistInfo, getSimilarArtists])
    rootSimilarityMap,
    nodes,
    edges,
    existingNames,
    firstHopResults,
    firstHopArtists,
    batchStart,     \* loop variable i of the batch loop (1-based)
    batchResults,
    selectedSecondHopCandidates,
    globalSeenNames,
    secondHopResults,
    gate,           \* which client the rate gate belongs to: "lastfm" or "spotify"
    now,            \* Date.now(), in units of 100 ms
    requestQueue,   \* this.requestQueue: ids of the queued requests
    processing,     \* this.processing
    lastRequestTime,\* this.lastRequestTime
    drainLoops,     \* the running invocations of processQueue, each at its await
    calls,          \* the calls made to the client, in call order
    dispatched,     \* history: the upstream requests sent, in order
    graph,          \* the graph handed to the CSV formatter
    csv,            \* the lines of the CSV reply
    thrown,         \* the message of the error the formatter threw
    exportStatus,   \* HTTP status of the export reply (0: not replied yet)
    expandArtistName, \* POST /expand: artistName of the request body
    expandFetch,    \* POST /expand: Promise.all([getSimilarArtists, getArtistInfo])
    artistInfos,    \* POST /expand: the fetches of artistInfoPromises
    overtaken,      \* history: a fetch settled while an earlier one of the same
                    \* Promise.all was still pending
    graphData,      \* client: the state of App that the canvas shows
    expands         \* client: the calls of handleExpandNode, each with the
                    \* graphData its closure holds

\* the state of one export request
exportVars == <<graph, csv, thrown, exportStatus>>

\* the state of one client's rate gate
gateVars == <<gate, now, requestQueue, processing, lastRequestTime, drainLoops,
              calls, dispatched>>

\* the state of one build, without the cache
buildVars == <<url, depth, limit, canon, catalogue, failures, pc, status,
               rootArtistName, caught, rootFetch, rootSimilarityMap, nodes, edges,
               existingNames, firstHopResults, firstHopArtists, batchStart,
               batchResults, selectedSecondHopCandidates, globalSeenNames,
               secondHopResults>>

\* the state of one expand request, besides the body and reply it shares
\* with the build
expandVars == <<expandArtistName, expandFetch, artistInfos>>

\* the state of the client
clientVars == <<graphData, expands>>

\* the state of the other routes, which a build, a gate and an export leave alone
routeVars == <<expandVars, clientVars>>
otherVars == <<routeVars, overtaken>>

vars == <<buildVars, cache, gateVars, exportVars, otherVars>>

----------------------------------------------------------------------------
(* Bounds of the model *)

\* largest limit a request carries (the route accepts up to 50)
MaxLimit == 6

\* upstream calls that may fail during one request
MaxFailures == 1

\* length of the root's similarity list in the wide catalogue, and the limit
\* of the requests made against it
WideFanOut == 10

\* nodes and edges of a graph a client posts to /export/connections
MaxNodes == 3
MaxEdges == 2

\* calls of handleExpandNode while the client is observed
MaxExpands == 2

\* calls made to one client while its gate is observed
MaxCalls == 3

\* how long the gate is observed, in units of 200 ms
MaxElapsed == 22

\* 429 answers the upstream gives while the gate is observed
MaxThrottled == 2

----------------------------------------------------------------------------
(* Program constants *)

MinLimit == 5
MaxExtendedLimit == 100
ExtendedFactor == 4
MaxFirstHopSources == 8
batchSize == 4
maxPerSource == 2
SecondHopFanOut == 5
UpstreamMaxLimit == 100
IndirectCap == 50
Materiality == 10
NaN == -1
Undefined == -2

\* times are in units of 200 ms
LastFmInterval == 1
SpotifyInterval == 3
Cooldown == 10
\* Date.now() when the first call is made: long after time 0
Epoch == 10

----------------------------------------------------------------------------
(* Strings *)

Min(a, b) == IF a < b THEN a ELSE b

UpperCase == <<"A", "B", "C", "D", "E", "F", "G", "H", "I", "J", "K", "L", "M",
               "N", "O", "P", "Q", "R", "S", "T", "U", "V", "W", "X", "Y", "Z">>
LowerCase == <<"a", "b", "c", "d", "e", "f", "g", "h", "i", "j", "k", "l", "m",
               "n", "o", "p", "q", "r", "s", "t", "u", "v", "w", "x", "y", "z">>

LowerChar(c) ==
    IF \E i \in 1..26 : UpperCase[i] = c
    THEN LowerCase[CHOOSE i \in 1..26 : UpperCase[i] = c]
    ELSE c

toLowerCase(s) == [i \in 1..Len(s) |-> LowerChar(s[i])]

IsSpace(c) == c \in {" ", "\t", "\n"}

RECURSIVE TrimLeft(_)
TrimLeft(s) == IF s # <<>> /\ IsSpace(Head(s)) THEN TrimLeft(Tail(s)) ELSE s

RECURSIVE TrimRight(_)
TrimRight(s) ==
    IF s # <<>> /\ IsSpace(s[Len(s)]) THEN TrimRight(SubSeq(s, 1, Len(s) - 1)) ELSE s

trim(s) == TrimRight(TrimLeft(s))

Arrow == <<"-", ">">>
RootSuffix == <<"_", "r", "o", "o", "t">>

Take(s, n) == SubSeq(s, 1, Min(n, Len(s)))


DigitChar(d) == <<"0", "1", "2", "3", "4", "5", "6", "7", "8", "9">>[d + 1]

\* String(n) for a non-negative integer
RECURSIVE NumberToString(_)
NumberToString(n) ==
    IF n < 10 THEN <<DigitChar(n)>>
    ELSE NumberToString(n \div 10) \o <<DigitChar(n % 10)>>

----------------------------------------------------------------------------
(* The upstream (Last.fm): an autocorrect directory and a similarity       *)
(* catalogue, both fixed while one request is served.                      *)

Entry(n, m) == [name |-> n, match |-> m]

\* artist.name of the answer to a query for n (autocorrect: 1)
Canon(dir, n) ==
    CASE dir = "case" ->
            (CASE n = <<"r">> -> <<"R">>
               [] n = <<"a">> -> <<"A">>
               [] n = <<"c">> -> <<"C">>
               [] OTHER -> n)
      [] dir = "alias" ->
            (CASE n = <<"c">> -> <<"a">>
               [] n = <<"e">> -> <<"n">>
               [] OTHER -> n)
      [] OTHER -> n

Directories == {"exact", "case", "alias"}

\* similarartists.artist of the canonical artist n, before the limit applies
CatalogueRich(n) ==
    CASE n \in {<<"r">>, <<"R">>} ->
            <<Entry(<<"a">>, 100), Entry(<<"b", "_", "r", "o", "o", "t">>, 81),
              Entry(<<"c">>, 64), Entry(<<"d">>, 25), Entry(<<"e">>, 16),
              Entry(<<"f">>, 16), Entry(<<"g">>, 0)>>
      [] n \in {<<"a">>, <<"A">>} ->
            <<Entry(<<"r">>, 100), Entry(<<"A">>, 100), Entry(<<"b">>, 81),
              Entry(<<"c">>, 64), Entry(<<"h">>, 49), Entry(<<"i">>, 36)>>
      [] n = <<"b", "_", "r", "o", "o", "t">> ->
            <<Entry(<<"b">>, 64), Entry(<<"h">>, 49), Entry(<<"f">>, 36),
              Entry(<<"g">>, 25)>>
      [] n \in {<<"c">>, <<"C">>} ->
            <<Entry(<<"i">>, 4), Entry(<<"j">>, 1)>>
      [] n = <<"d">> ->
            <<Entry(<<"k">>, 4), Entry(<<"l">>, 16), Entry(<<"m">>, 16)>>
      [] n = <<"e">> -> <<Entry(<<"m">>, 1)>>
      [] n = <<"f">> -> <<Entry(<<"n">>, 9)>>
      [] n = <<"n">> -> <<Entry(<<"m">>, 25), Entry(<<"e">>, 4)>>
      [] OTHER -> <<>>

CatalogueSmall(n) ==
    CASE n \in {<<"r">>, <<"R">>} -> <<Entry(<<"a">>, 81), Entry(<<"c">>, 25)>>
      [] n \in {<<"a">>, <<"A">>} ->
            <<Entry(<<"c">>, 81), Entry(<<"e">>, 25), Entry(<<"r">>, 4)>>
      [] n \in {<<"c">>, <<"C">>} -> <<Entry(<<"a">>, 100), Entry(<<"e">>, 4)>>
      [] OTHER -> <<>>

\* a root with WideFanOut similar artists w0, w1, ..., each with three similar
\* artists of its own
CatalogueWide(n) ==
    IF n \in {<<"r">>, <<"R">>}
    THEN [i \in 1..WideFanOut |-> Entry(<<"w">> \o NumberToString(i - 1), 81)]
    ELSE IF Len(n) >= 2 /\ n[1] = "w"
    THEN <<Entry(<<"x">> \o Tail(n) \o <<"-", "0">>, 49),
           Entry(<<"x">> \o Tail(n) \o <<"-", "1">>, 36),
           Entry(<<"x">> \o Tail(n) \o <<"-", "2">>, 1)>>
    ELSE <<>>

Catalogue(cat, n) ==
    CASE cat = "rich" -> CatalogueRich(n)
      [] cat = "wide" -> CatalogueWide(n)
      [] OTHER -> CatalogueSmall(n)

Catalogues == {"rich", "small"}

\* the ways an upstream call fails: the HTTP status of error.response (0: no
\* response) and what the error message contains
UpstreamFailures ==
    { [http |-> 429, timeout |-> FALSE, notFound |-> FALSE],
      [http |-> 0,   timeout |-> TRUE,  notFound |-> FALSE],
      [http |-> 200, timeout |-> FALSE, notFound |-> TRUE],
      [http |-> 200, timeout |-> FALSE, notFound |-> FALSE],
      [http |-> 500, timeout |-> FALSE, notFound |-> FALSE] }

\* the failures tried on the fetches of the fan-out: throttled, timed out
FanOutFailures == {f \in UpstreamFailures : f.http = 429 \/ f.timeout}

----------------------------------------------------------------------------
(* LastFmService *)

NoInfo == [name |-> <<>>]

\* the value that stands for a thrown URIError
URIError == <<"URIError">>

HexDigits == <<"0", "1", "2", "3", "4", "5", "6", "7", "8", "9",
               "a", "b", "c", "d", "e", "f">>

IsHex(c) == \E v \in 1..16 : HexDigits[v] = LowerChar(c)
HexVal(c) == (CHOOSE v \in 1..16 : HexDigits[v] = LowerChar(c)) - 1

\* the character of an ASCII code; the codes the inputs use
CharOfCode(b) ==
    IF b \in 65..90 THEN UpperCase[b - 64]
    ELSE IF b \in 97..122 THEN LowerCase[b - 96]
    ELSE IF b \in 48..57 THEN DigitChar(b - 48)
    ELSE CASE b = 32 -> " "
           [] b = 37 -> "%"
           [] b = 43 -> "+"
           [] b = 45 -> "-"
           [] b = 47 -> "/"
           [] b = 62 -> ">"
           [] b = 63 -> "?"
           [] b = 95 -> "_"
           [] OTHER -> "."

\* stands for any character outside ASCII
NonAsciiChar == "non-ascii"

\* number of continuation bytes a UTF-8 lead byte announces (-1: not a lead)
Continuations(b) ==
    IF b < 128 THEN 0
    ELSE IF b \in 194..223 THEN 1
    ELSE IF b \in 224..239 THEN 2
    ELSE IF b \in 240..244 THEN 3
    ELSE -1

IsEscape(s, p) ==
    /\ p + 2 <= Len(s)
    /\ s[p] = "%"
    /\ IsHex(s[p + 1])
    /\ IsHex(s[p + 2])

ByteAt(s, p) == 16 * HexVal(s[p + 1]) + HexVal(s[p + 2])

\* decodeURIComponent: %XX escapes become characters, a malformed escape or
\* byte sequence throws; a character outside ASCII is kept as one character
RECURSIVE decodeURIComponent(_)
decodeURIComponent(s) ==
    IF s = <<>> THEN <<>>
    ELSE IF Head(s) # "%"
    THEN LET rest == decodeURIComponent(Tail(s))
         IN IF rest = URIError THEN URIError ELSE <<Head(s)>> \o rest
    ELSE IF ~IsEscape(s, 1) \/ Continuations(ByteAt(s, 1)) < 0
    THEN URIError
    ELSE LET n == Continuations(ByteAt(s, 1))
             wellFormed ==
                 \A c \in 1..n : /\ IsEscape(s, 1 + 3 * c)
                                 /\ ByteAt(s, 1 + 3 * c) \in 128..191
             char == IF n = 0 THEN CharOfCode(ByteAt(s, 1)) ELSE NonAsciiChar
         IN IF ~wellFormed THEN URIError
            ELSE LET rest == decodeURIComponent(SubSeq(s, 4 + 3 * n, Len(s)))
                 IN IF rest = URIError THEN URIError ELSE <<char>> \o rest

\* replace(/\+/g, ' ')
PlusToSpace(s) == [i \in 1..Len(s) |-> IF s[i] = "+" THEN " " ELSE s[i]]

UrlPrefix == <<"l", "a", "s", "t", ".", "f", "m", "/", "m", "u", "s", "i", "c", "/">>

\* /last\.fm\/music\/([^/?]+)/i matches at position p
UrlMatchesAt(input, p) ==
    /\ p + Len(UrlPrefix) <= Len(input)
    /\ toLowerCase(SubSeq(input, p, p + Len(UrlPrefix) - 1)) = UrlPrefix
    /\ input[p + Len(UrlPrefix)] \notin {"/", "?"}

\* the capture group of the leftmost match
UrlCapture(input) ==
    LET p == CHOOSE q \in 1..Len(input) :
                 /\ UrlMatchesAt(input, q)
                 /\ \A o \in 1..(q - 1) : ~UrlMatchesAt(input, o)
        start == p + Len(UrlPrefix)
        stops == {q \in start..Len(input) : input[q] \in {"/", "?"}}
        end == IF stops = {} THEN Len(input)
               ELSE (CHOOSE q \in stops : \A o \in stops : q <= o) - 1
    IN SubSeq(input, start, end)

parseArtistInput(input) ==
    IF \E p \in 1..Len(input) : UrlMatchesAt(input, p)
    THEN LET decoded == decodeURIComponent(UrlCapture(input))
         IN IF decoded = URIError THEN URIError ELSE PlusToSpace(decoded)
    ELSE trim(input)

\* the key built from the name as given, without toLowerCase
InfoKeyAsGiven(artistName) == <<"i", "n", "f", "o", ":">> \o artistName

InfoKey(artistName) == <<"i", "n", "f", "o", ":">> \o toLowerCase(artistName)

SimilarKey(artistName, lim) ==
    <<"s", "i", "m", "i", "l", "a", "r", ":">> \o toLowerCase(artistName)
        \o <<":">> \o NumberToString(lim)

\* result of getArtistInfo when the upstream answers
ArtistInfoResult(artistName) == [name |-> Canon(canon, artistName)]

\* result.similar of getSimilarArtists when the upstream answers
SimilarResult(artistName, lim) ==
    Take(Catalogue(catalogue, Canon(canon, artistName)), Min(lim, UpstreamMaxLimit))

\* the error getArtistInfo / getSimilarArtists throws for an upstream failure
ThrownError(f) ==
    IF f.http = 429
    THEN [statusCode |-> 429, timeout |-> FALSE, notFound |-> FALSE]
    ELSE [statusCode |-> 0, timeout |-> f.timeout, notFound |-> f.notFound]

\* a call as issued: answered from the cache, or pushed on the request queue
IssueInfo(artistName) ==
    IF InfoKey(artistName) \in DOMAIN cache
    THEN [st |-> "hit", val |-> cache[InfoKey(artistName)]]
    ELSE [st |-> "queued", val |-> NoInfo]

IssueSimilar(artistName, lim) ==
    IF SimilarKey(artistName, lim) \in DOMAIN cache
    THEN [st |-> "hit", val |-> cache[SimilarKey(artistName, lim)]]
    ELSE [st |-> "queued", val |-> <<>>]

\* processQueue answers the queued requests one at a time, in queue order
AtHeadOfQueue(fetches, i) ==
    /\ fetches[i].st = "queued"
    /\ \A j \in 1..(i - 1) : fetches[j].st # "queued"

\* fetch i settles while an earlier fetch of the same Promise.all is pending
Overtakes(fetches, i) == \E j \in 1..(i - 1) : fetches[j].st \in {"queued", "hit"}

Settled(fetches) == \A i \in 1..Len(fetches) : fetches[i].st \in {"ok", "failed"}

setCache(key, data) == [k \in DOMAIN cache \cup {key} |-> IF k = key THEN data ELSE cache[k]]

----------------------------------------------------------------------------
(* Numbers: scores in hundredths, NaN and undefined as in JavaScript *)

IsNumber(x) == x # NaN /\ x # Undefined

\* a * b of two scores: the product is in ten-thousandths
Times(a, b) == IF IsNumber(a) /\ IsNumber(b) THEN a * b ELSE NaN

\* Math.sqrt of a product in ten-thousandths, back in hundredths
Sqrt(p) == IF p = NaN THEN NaN
           ELSE CHOOSE k \in 0..100 : k * k <= p /\ (k + 1) * (k + 1) > p

MathMin(a, b) == IF a = NaN \/ b = NaN THEN NaN ELSE Min(a, b)

GreaterThan(a, b) == IsNumber(a) /\ a > b

\* !x for a number-or-undefined
Falsy(x) == x = Undefined \/ x = NaN \/ x = 0

----------------------------------------------------------------------------
(* routes/map.js: buildArtistGraph *)

NoError == [statusCode |-> 0, timeout |-> FALSE, notFound |-> FALSE]

rootInfo == rootFetch[1].val
rootSimilar == rootFetch[2].val

extendedLimit ==
    IF depth > 1 THEN Min(MaxExtendedLimit, limit * ExtendedFactor) ELSE limit

\* the Map filled by rootSimilar.similar.forEach(... set(lowercase name, match))
SimilarityMap(similar) ==
    [k \in {toLowerCase(similar[i].name) : i \in 1..Len(similar)} |->
        LET last == CHOOSE i \in 1..Len(similar) :
                        /\ toLowerCase(similar[i].name) = k
                        /\ \A j \in (i + 1)..Len(similar) : toLowerCase(similar[j].name) # k
        IN similar[last].match]

MapGet(map, key) == IF key \in DOMAIN map THEN map[key] ELSE Undefined

\* createArtistNode called without its isRoot argument for first-hop artists
createArtistNodeHopAsRoot(artistInfo, isRoot, hopLevel) ==
    [id |-> artistInfo.name, name |-> artistInfo.name,
     isRoot |-> isRoot \/ hopLevel = 1, hopLevel |-> hopLevel]

createArtistNode(artistInfo, isRoot, hopLevel) ==
    [id |-> artistInfo.name, name |-> artistInfo.name,
     isRoot |-> isRoot, hopLevel |-> hopLevel]

Edge(id, source, target, weight) ==
    [id |-> id, source |-> source, target |-> target,
     match |-> weight, weight |-> weight]

\* slice(0, firstHopLimit) one entry short
firstHopLimitOffByOne == Min(limit, Len(rootSimilar)) - 1

firstHopLimit == Min(limit, Len(rootSimilar))

\* the test of the forEach over firstHopResults
FirstHopAccepted(result) ==
    /\ result.st = "ok"
    /\ toLowerCase(result.val.name) # toLowerCase(rootInfo.name)

\* the edge targets the name of the list entry instead of the resolved name
FirstHopEdgeToListName(i) ==
    Edge(rootInfo.name \o Arrow \o rootSimilar[i].name,
         rootInfo.name, rootSimilar[i].name, rootSimilar[i].match)

\* the edge starts at the requested name instead of the resolved root name
FirstHopEdgeFromInput(i) ==
    Edge(rootArtistName \o Arrow \o firstHopResults[i].val.name,
         rootArtistName, firstHopResults[i].val.name, rootSimilar[i].match)

FirstHopEdge(i) ==
    Edge(rootInfo.name \o Arrow \o firstHopResults[i].val.name,
         rootInfo.name, firstHopResults[i].val.name, rootSimilar[i].match)

\* indices of the results a forEach acts on, in array order
\* the forEach walks the results from the last one to the first
RECURSIVE AcceptedNewestFirst(_, _)
AcceptedNewestFirst(passes, i) ==
    IF i > Len(passes) THEN <<>>
    ELSE AcceptedNewestFirst(passes, i + 1) \o (IF passes[i] THEN <<i>> ELSE <<>>)

RECURSIVE Accepted(_, _)
Accepted(passes, i) ==
    IF i > Len(passes) THEN <<>>
    ELSE (IF passes[i] THEN <<i>> ELSE <<>>) \o Accepted(passes, i + 1)

\* for (const similar of result.similarData.similar): up to maxPerSource
\* entries that are neither known nor seen nor the source itself
RECURSIVE TakeFromSource(_, _, _, _, _, _)
TakeFromSource(similar, k, sourceNode, seen, addedFromSource, acc) ==
    IF k > Len(similar) \/ addedFromSource >= maxPerSource
    THEN [selected |-> acc, seen |-> seen]
    ELSE LET similarNameLower == toLowerCase(similar[k].name)
             sourceNameLower == toLowerCase(sourceNode.name)
         IN IF /\ similarNameLower \notin existingNames
               /\ similarNameLower \notin seen
               /\ similarNameLower # sourceNameLower
            THEN TakeFromSource(similar, k + 1, sourceNode,
                                seen \cup {similarNameLower}, addedFromSource + 1,
                                Append(acc, [artistName |-> similar[k].name,
                                             parentNode |-> sourceNode,
                                             parentSimilarity |-> similar[k].match]))
            ELSE TakeFromSource(similar, k + 1, sourceNode, seen,
                                addedFromSource, acc)

\* batchResults.forEach: the successful sources of one batch, in batch order
RECURSIVE TakeFromBatch(_, _, _, _)
TakeFromBatch(results, j, seen, acc) ==
    IF j > Len(results) THEN [selected |-> acc, seen |-> seen]
    ELSE IF results[j].st = "ok"
         THEN LET t == TakeFromSource(results[j].val, 1,
                                      firstHopArtists[batchStart + j - 1],
                                      seen, 0, acc)
              IN TakeFromBatch(results, j + 1, t.seen, t.selected)
         ELSE TakeFromBatch(results, j + 1, seen, acc)

\* the root-relative similarity of a resolved second-hop candidate
RootSimilarity(artistInfo, candidate) ==
    LET direct == MapGet(rootSimilarityMap, toLowerCase(artistInfo.name))
    IN IF Falsy(direct)
       THEN MathMin(IndirectCap,
                    Sqrt(Times(MapGet(rootSimilarityMap,
                                      toLowerCase(candidate.parentNode.name)),
                               candidate.parentSimilarity)))
       ELSE direct

\* the root edge is added at the threshold too (>= instead of >)
SecondHopEdgesAtThreshold(k) ==
    LET result == secondHopResults[k]
        candidate == selectedSecondHopCandidates[k]
        parentEdge == Edge(candidate.parentNode.name \o Arrow \o result.val.name,
                           candidate.parentNode.name, result.val.name,
                           candidate.parentSimilarity)
        rootEdge == Edge(rootInfo.name \o Arrow \o result.val.name \o RootSuffix,
                         rootInfo.name, result.val.name, result.rootSimilarity)
    IN IF IsNumber(result.rootSimilarity) /\ result.rootSimilarity >= Materiality
       THEN <<parentEdge, rootEdge>>
       ELSE <<parentEdge>>

SecondHopEdges(k) ==
    LET result == secondHopResults[k]
        candidate == selectedSecondHopCandidates[k]
        parentEdge == Edge(candidate.parentNode.name \o Arrow \o result.val.name,
                           candidate.parentNode.name, result.val.name,
                           candidate.parentSimilarity)
        rootEdge == Edge(rootInfo.name \o Arrow \o result.val.name \o RootSuffix,
                         rootInfo.name, result.val.name, result.rootSimilarity)
    IN IF GreaterThan(result.rootSimilarity, Materiality)
       THEN <<parentEdge, rootEdge>>
       ELSE <<parentEdge>>

RECURSIVE Flatten(_)
Flatten(ss) == IF ss = <<>> THEN <<>> ELSE Head(ss) \o Flatten(Tail(ss))

\* the catch block without its timeout branch
ReplyStatusWithoutTimeout(error) ==
    IF error.statusCode = 429 THEN 429
    ELSE IF error.notFound THEN 404
    ELSE 500

\* the status the catch block of POST /map replies with
ReplyStatus(error) ==
    IF error.statusCode = 429 THEN 429
    ELSE IF error.timeout THEN 504
    ELSE IF error.notFound THEN 404
    ELSE 500

----------------------------------------------------------------------------
(* Initial state: a request arrives at a server whose cache holds what     *)
(* earlier requests left in it.                                            *)

Urls ==
    { <<"r", " ">>,
      <<" ">>,
      <<"L", "a", "s", "t", ".", "f", "m", "/", "m", "u", "s", "i", "c", "/",
        "%", "7", "2", "?", "x">>,
      <<"l", "a", "s", "t", ".", "f", "m", "/", "m", "u", "s", "i", "c", "/",
        "r", "%">> }

InfoRequest(n) == [kind |-> "info", name |-> n, lim |-> 0]
SimilarRequest(n, lim) == [kind |-> "similar", name |-> n, lim |-> lim]

\* the requests earlier builds may have left answered in the cache
WarmRequests ==
    { {},
      {InfoRequest(<<"d">>)},
      {InfoRequest(<<"r">>), InfoRequest(<<"a">>),
       SimilarRequest(<<"r">>, MinLimit * ExtendedFactor)},
      {InfoRequest(<<"c">>), InfoRequest(<<"h">>),
       SimilarRequest(<<"b", "_", "r", "o", "o", "t">>, SecondHopFanOut)} }

RequestKey(q) ==
    IF q.kind = "info" THEN InfoKey(q.name) ELSE SimilarKey(q.name, q.lim)

RequestValue(q) ==
    IF q.kind = "info" THEN ArtistInfoResult(q.name) ELSE SimilarResult(q.name, q.lim)

WarmCache(requests) ==
    [k \in {RequestKey(q) : q \in requests} |->
        RequestValue(CHOOSE q \in requests : RequestKey(q) = k)]

NoGraph == [nodes |-> <<>>, edges |-> <<>>]

\* no export request was made yet
ExportIdle ==
    /\ graph = NoGraph
    /\ csv = <<>>
    /\ thrown = <<>>
    /\ exportStatus = 0

\* no expand request was made yet
ExpandIdle ==
    /\ expandArtistName = <<>>
    /\ expandFetch = <<>>
    /\ artistInfos = <<>>

\* useState<GraphData>({ nodes: [], edges: [] })
ClientIdle ==
    /\ graphData = [nodes |-> <<>>, edges |-> <<>>]
    /\ expands = <<>>

OthersIdle == ExpandIdle /\ ClientIdle /\ overtaken = FALSE

\* the rate gate as the constructor leaves it
GateIdle ==
    /\ gate = "lastfm"
    /\ now = Epoch
    /\ requestQueue = <<>>
    /\ processing = FALSE
    /\ lastRequestTime = 0
    /\ drainLoops = <<>>
    /\ calls = <<>>
    /\ dispatched = <<>>

Init ==
    /\ url \in Urls
    /\ depth \in 1..2
    /\ limit \in MinLimit..MaxLimit
    /\ canon \in Directories
    /\ catalogue \in Catalogues
    /\ \E requests \in WarmRequests : cache = WarmCache(requests)
    \* inputs other than the plain name meet one upstream world and a cold cache
    /\ url # <<"r", " ">> =>
          canon = "exact" /\ catalogue = "small" /\ cache = WarmCache({})
    /\ failures = 0
    /\ pc = "start"
    /\ status = 0
    /\ rootArtistName = <<>>
    /\ caught = NoError
    /\ rootFetch = <<>>
    /\ rootSimilarityMap = <<>>
    /\ nodes = <<>>
    /\ edges = <<>>
    /\ existingNames = {}
    /\ firstHopResults = <<>>
    /\ firstHopArtists = <<>>
    /\ batchStart = 1
    /\ batchResults = <<>>
    /\ selectedSecondHopCandidates = <<>>
    /\ globalSeenNames = {}
    /\ secondHopResults = <<>>
    /\ GateIdle
    /\ ExportIdle
    /\ OthersIdle

\* requests against the wide catalogue
WideWarmRequests ==
    { {},
      {InfoRequest(<<"r">>), InfoRequest(<<"w", "3">>), InfoRequest(<<"x", "1", "-", "0">>),
       SimilarRequest(<<"w", "2">>, SecondHopFanOut)} }

InitWide ==
    /\ url = <<"r">>
    /\ depth \in 1..2
    /\ limit = Min(WideFanOut, 50)
    /\ canon = "exact"
    /\ catalogue = "wide"
    /\ \E requests \in WideWarmRequests : cache = WarmCache(requests)
    /\ failures = 0
    /\ pc = "start"
    /\ status = 0
    /\ rootArtistName = <<>>
    /\ caught = NoError
    /\ rootFetch = <<>>
    /\ rootSimilarityMap = <<>>
    /\ nodes = <<>>
    /\ edges = <<>>
    /\ existingNames = {}
    /\ firstHopResults = <<>>
    /\ firstHopArtists = <<>>
    /\ batchStart = 1
    /\ batchResults = <<>>
    /\ selectedSecondHopCandidates = <<>>
    /\ globalSeenNames = {}
    /\ secondHopResults = <<>>
    /\ GateIdle
    /\ ExportIdle
    /\ OthersIdle

upstreamVars == <<url, depth, limit, canon, catalogue>>
graphVars == <<rootSimilarityMap, nodes, edges, existingNames>>
firstHopVars == <<firstHopResults>>
secondHopVars == <<firstHopArtists, batchStart, batchResults,
                   selectedSecondHopCandidates, globalSeenNames, secondHopResults>>

----------------------------------------------------------------------------
(* POST /map: parse the input, reply 400 or start the build *)

Receive ==
    /\ pc = "start"
    /\ LET parsed == parseArtistInput(url)
       IN IF parsed = URIError
          THEN \* decodeURIComponent threw: the catch block replies
               /\ caught' = NoError
               /\ status' = ReplyStatus(caught')
               /\ pc' = "done"
               /\ UNCHANGED <<otherVars, gateVars, exportVars, rootArtistName, rootFetch>>
          ELSE /\ rootArtistName' = parsed
               /\ caught' = caught
               /\ IF parsed = <<>>
                  THEN /\ status' = 400
                       /\ pc' = "done"
                       /\ rootFetch' = rootFetch
                  ELSE /\ status' = status
                       /\ pc' = "root"
                       /\ rootFetch' = <<IssueInfo(parsed),
                                         IssueSimilar(parsed, extendedLimit)>>
    /\ UNCHANGED <<otherVars, gateVars, exportVars, upstreamVars, cache, failures, graphVars,
                   firstHopVars, secondHopVars>>

(* the root's record (i = 1) and similarity list (i = 2) *)

RootAnswerOf(i) ==
    IF i = 1 THEN ArtistInfoResult(rootArtistName)
    ELSE SimilarResult(rootArtistName, extendedLimit)

RootKeyOf(i) ==
    IF i = 1 THEN InfoKey(rootArtistName) ELSE SimilarKey(rootArtistName, extendedLimit)

RootFetchHit(i) ==
    /\ pc = "root"
    /\ rootFetch[i].st = "hit"
    /\ rootFetch' = [rootFetch EXCEPT ![i].st = "ok"]
    /\ overtaken' = (overtaken \/ Overtakes(rootFetch, i))
    /\ UNCHANGED <<routeVars, gateVars, exportVars, upstreamVars, cache, failures, pc, status, rootArtistName,
                   caught, graphVars, firstHopVars, secondHopVars>>

RootFetchAnswer(i) ==
    /\ pc = "root"
    /\ AtHeadOfQueue(rootFetch, i)
    /\ rootFetch' = [rootFetch EXCEPT ![i] = [st |-> "ok", val |-> RootAnswerOf(i)]]
    /\ cache' = setCache(RootKeyOf(i), RootAnswerOf(i))
    /\ UNCHANGED <<otherVars, gateVars, exportVars, upstreamVars, failures, pc, status, rootArtistName, caught,
                   graphVars, firstHopVars, secondHopVars>>

\* a rejected root fetch rejects Promise.all: the catch block replies
RootFetchFail(i, f) ==
    /\ pc = "root"
    /\ AtHeadOfQueue(rootFetch, i)
    /\ failures < MaxFailures
    /\ failures' = failures + 1
    /\ rootFetch' = [rootFetch EXCEPT ![i].st = "failed"]
    /\ caught' = ThrownError(f)
    /\ status' = ReplyStatus(caught')
    /\ pc' = "done"
    /\ UNCHANGED <<otherVars, gateVars, exportVars, upstreamVars, cache, rootArtistName, graphVars,
                   firstHopVars, secondHopVars>>

\* both resolved: the lookup map, the root node, and the first-hop fetches
StartFirstHop ==
    /\ pc = "root"
    /\ \A i \in 1..2 : rootFetch[i].st = "ok"
    /\ rootSimilarityMap' = SimilarityMap(rootSimilar)
    /\ nodes' = <<createArtistNode(rootInfo, TRUE, 0)>>
    /\ edges' = <<>>
    /\ firstHopResults' = [i \in 1..firstHopLimit |-> IssueInfo(rootSimilar[i].name)]
    /\ pc' = "hop1"
    /\ UNCHANGED <<otherVars, gateVars, exportVars, upstreamVars, cache, failures, status, rootArtistName, caught,
                   rootFetch, existingNames, secondHopVars>>

(* first hop: one getArtistInfo per entry, awaited together *)

FirstHopHit(i) ==
    /\ pc = "hop1"
    /\ i \in 1..Len(firstHopResults)
    /\ firstHopResults[i].st = "hit"
    /\ firstHopResults' = [firstHopResults EXCEPT ![i].st = "ok"]
    /\ overtaken' = (overtaken \/ Overtakes(firstHopResults, i))
    /\ UNCHANGED <<routeVars, gateVars, exportVars, upstreamVars, cache, failures, pc, status, rootArtistName,
                   caught, rootFetch, graphVars, secondHopVars>>

FirstHopAnswer(i) ==
    /\ pc = "hop1"
    /\ i \in 1..Len(firstHopResults)
    /\ AtHeadOfQueue(firstHopResults, i)
    /\ LET artistInfo == ArtistInfoResult(rootSimilar[i].name)
       IN /\ firstHopResults' =
                [firstHopResults EXCEPT ![i] = [st |-> "ok", val |-> artistInfo]]
          /\ cache' = setCache(InfoKey(rootSimilar[i].name), artistInfo)
    /\ UNCHANGED <<otherVars, gateVars, exportVars, upstreamVars, failures, pc, status, rootArtistName, caught,
                   rootFetch, graphVars, secondHopVars>>

\* the mapper without its try/catch: the rejection reaches Promise.all and
\* the catch block of the handler
FirstHopFailRejects(i, f) ==
    /\ pc = "hop1"
    /\ i \in 1..Len(firstHopResults)
    /\ AtHeadOfQueue(firstHopResults, i)
    /\ failures < MaxFailures
    /\ failures' = failures + 1
    /\ firstHopResults' = [firstHopResults EXCEPT ![i].st = "failed",
                                                  ![i].val = ThrownError(f)]
    /\ caught' = ThrownError(f)
    /\ status' = ReplyStatus(caught')
    /\ pc' = "done"
    /\ UNCHANGED <<otherVars, gateVars, exportVars, upstreamVars, cache, rootArtistName, rootFetch, graphVars,
                   secondHopVars>>

\* the catch of the mapper: the entry yields { success: false }
FirstHopFail(i, f) ==
    /\ pc = "hop1"
    /\ i \in 1..Len(firstHopResults)
    /\ AtHeadOfQueue(firstHopResults, i)
    /\ failures < MaxFailures
    /\ failures' = failures + 1
    /\ firstHopResults' = [firstHopResults EXCEPT ![i].st = "failed",
                                                  ![i].val = ThrownError(f)]
    /\ UNCHANGED <<otherVars, gateVars, exportVars, upstreamVars, cache, pc, status, rootArtistName, caught,
                   rootFetch, graphVars, secondHopVars>>

\* the first-hop nodes without the slice(0, 8)
FirstHopSourcesUncapped(ns) == SelectSeq(ns, LAMBDA n : ~n.isRoot)

\* nodes.filter(n => !n.isRoot).slice(0, 8)
FirstHopSources(ns) ==
    Take(SelectSeq(ns, LAMBDA n : ~n.isRoot), MaxFirstHopSources)

FirstBatch(sources, start) ==
    [j \in 1..Min(batchSize, Len(sources) - start + 1) |->
        IssueSimilar(sources[start + j - 1].name, SecondHopFanOut)]

IssueSecondHop(candidates) ==
    [k \in 1..Len(candidates) |->
        [st |-> IssueInfo(candidates[k].artistName).st,
         val |-> IssueInfo(candidates[k].artistName).val,
         rootSimilarity |-> Undefined]]

\* after Promise.all(firstHopPromises): add the first-hop nodes and edges,
\* then return (depth 1) or start the batches of the second hop
AddFirstHop ==
    /\ pc = "hop1"
    /\ Settled(firstHopResults)
    /\ \E acc \in {Accepted([i \in DOMAIN firstHopResults |->
                                FirstHopAccepted(firstHopResults[i])], 1)} :
       \E added \in {[j \in 1..Len(acc) |->
                        createArtistNode(firstHopResults[acc[j]].val, FALSE, 1)]} :
       \E sources \in {FirstHopSources(nodes \o added)} :
          /\ nodes' = nodes \o added
          /\ edges' = edges \o [j \in 1..Len(acc) |-> FirstHopEdge(acc[j])]
          /\ existingNames' = {toLowerCase(rootInfo.name)}
                                \cup {toLowerCase(added[j].name) : j \in 1..Len(added)}
          /\ IF depth > 1
             THEN /\ firstHopArtists' = sources
                  /\ batchStart' = 1
                  /\ selectedSecondHopCandidates' = <<>>
                  /\ globalSeenNames' = {}
                  /\ status' = status
                  /\ IF sources # <<>>
                     THEN /\ batchResults' = FirstBatch(sources, 1)
                          /\ secondHopResults' = secondHopResults
                          /\ pc' = "batch"
                     ELSE /\ batchResults' = batchResults
                          /\ secondHopResults' = IssueSecondHop(<<>>)
                          /\ pc' = "hop2"
             ELSE /\ status' = 200
                  /\ pc' = "done"
                  /\ UNCHANGED secondHopVars
    /\ UNCHANGED <<otherVars, gateVars, exportVars, upstreamVars, cache, failures, rootArtistName, caught,
                   rootFetch, rootSimilarityMap, firstHopVars>>

(* second hop, selection: getSimilarArtists of the sources, four at a time *)

BatchHit(j) ==
    /\ pc = "batch"
    /\ j \in 1..Len(batchResults)
    /\ batchResults[j].st = "hit"
    /\ batchResults' = [batchResults EXCEPT ![j].st = "ok"]
    /\ overtaken' = (overtaken \/ Overtakes(batchResults, j))
    /\ UNCHANGED <<routeVars, gateVars, exportVars, upstreamVars, cache, failures, pc, status, rootArtistName,
                   caught, rootFetch, graphVars, firstHopVars, firstHopArtists,
                   batchStart, selectedSecondHopCandidates, globalSeenNames,
                   secondHopResults>>

BatchAnswer(j) ==
    /\ pc = "batch"
    /\ j \in 1..Len(batchResults)
    /\ AtHeadOfQueue(batchResults, j)
    /\ LET sourceNode == firstHopArtists[batchStart + j - 1]
           similarData == SimilarResult(sourceNode.name, SecondHopFanOut)
       IN /\ batchResults' =
                [batchResults EXCEPT ![j] = [st |-> "ok", val |-> similarData]]
          /\ cache' = setCache(SimilarKey(sourceNode.name, SecondHopFanOut), similarData)
    /\ UNCHANGED <<otherVars, gateVars, exportVars, upstreamVars, failures, pc, status, rootArtistName, caught,
                   rootFetch, graphVars, firstHopVars, firstHopArtists,
                   batchStart, selectedSecondHopCandidates, globalSeenNames,
                   secondHopResults>>

\* the mapper of the batch without its try/catch: the rejection reaches
\* Promise.all and the catch block of the handler
BatchFailRejects(j, f) ==
    /\ pc = "batch"
    /\ j \in 1..Len(batchResults)
    /\ AtHeadOfQueue(batchResults, j)
    /\ failures < MaxFailures
    /\ failures' = failures + 1
    /\ batchResults' = [batchResults EXCEPT ![j].st = "failed",
                                            ![j].val = ThrownError(f)]
    /\ caught' = ThrownError(f)
    /\ status' = ReplyStatus(caught')
    /\ pc' = "done"
    /\ UNCHANGED <<otherVars, gateVars, exportVars, upstreamVars, cache, rootArtistName,
                   rootFetch, graphVars, firstHopVars, firstHopArtists,
                   batchStart, selectedSecondHopCandidates, globalSeenNames,
                   secondHopResults>>

\* catch of the batch mapper: the source yields { success: false }
BatchFail(j, f) ==
    /\ pc = "batch"
    /\ j \in 1..Len(batchResults)
    /\ AtHeadOfQueue(batchResults, j)
    /\ failures < MaxFailures
    /\ failures' = failures + 1
    /\ batchResults' = [batchResults EXCEPT ![j].st = "failed",
                                            ![j].val = ThrownError(f)]
    /\ UNCHANGED <<otherVars, gateVars, exportVars, upstreamVars, cache, pc, status, rootArtistName, caught,
                   rootFetch, graphVars, firstHopVars, firstHopArtists,
                   batchStart, selectedSecondHopCandidates, globalSeenNames,
                   secondHopResults>>

\* after Promise.all(batchPromises): select from the batch, then the next
\* batch or, after the last one, the fetches of the selected candidates
ProcessBatch ==
    /\ pc = "batch"
    /\ Settled(batchResults)
    /\ \E t \in {TakeFromBatch(batchResults, 1, globalSeenNames,
                                selectedSecondHopCandidates)} :
       \E next \in {batchStart + batchSize} :
          /\ selectedSecondHopCandidates' = t.selected
          /\ globalSeenNames' = t.seen
          /\ IF next <= Len(firstHopArtists)
             THEN /\ batchStart' = next
                  /\ batchResults' = FirstBatch(firstHopArtists, next)
                  /\ secondHopResults' = secondHopResults
                  /\ pc' = pc
             ELSE /\ batchStart' = next
                  /\ batchResults' = batchResults
                  /\ secondHopResults' = IssueSecondHop(t.selected)
                  /\ pc' = "hop2"
    /\ UNCHANGED <<otherVars, gateVars, exportVars, upstreamVars, cache, failures, status, rootArtistName, caught,
                   rootFetch, graphVars, firstHopVars, firstHopArtists>>

(* second hop, resolution: getArtistInfo of each selected candidate and its *)
(* root-relative similarity                                                 *)

SecondHopHit(k) ==
    /\ pc = "hop2"
    /\ k \in 1..Len(secondHopResults)
    /\ secondHopResults[k].st = "hit"
    /\ secondHopResults' =
          [secondHopResults EXCEPT
              ![k].st = "ok",
              ![k].rootSimilarity =
                  RootSimilarity(secondHopResults[k].val, selectedSecondHopCandidates[k])]
    /\ overtaken' = (overtaken \/ Overtakes(secondHopResults, k))
    /\ UNCHANGED <<routeVars, gateVars, exportVars, upstreamVars, cache, failures, pc, status, rootArtistName,
                   caught, rootFetch, graphVars, firstHopVars, firstHopArtists,
                   batchStart, batchResults, selectedSecondHopCandidates,
                   globalSeenNames>>

SecondHopAnswer(k) ==
    /\ pc = "hop2"
    /\ k \in 1..Len(secondHopResults)
    /\ AtHeadOfQueue(secondHopResults, k)
    /\ LET candidate == selectedSecondHopCandidates[k]
           artistInfo == ArtistInfoResult(candidate.artistName)
       IN /\ secondHopResults' =
                [secondHopResults EXCEPT
                    ![k] = [st |-> "ok", val |-> artistInfo,
                            rootSimilarity |-> RootSimilarity(artistInfo, candidate)]]
          /\ cache' = setCache(InfoKey(candidate.artistName), artistInfo)
    /\ UNCHANGED <<otherVars, gateVars, exportVars, upstreamVars, failures, pc, status, rootArtistName, caught,
                   rootFetch, graphVars, firstHopVars, firstHopArtists,
                   batchStart, batchResults, selectedSecondHopCandidates,
                   globalSeenNames>>

SecondHopFail(k, f) ==
    /\ pc = "hop2"
    /\ k \in 1..Len(secondHopResults)
    /\ AtHeadOfQueue(secondHopResults, k)
    /\ failures < MaxFailures
    /\ failures' = failures + 1
    /\ secondHopResults' = [secondHopResults EXCEPT ![k].st = "failed",
                                                    ![k].val = ThrownError(f)]
    /\ UNCHANGED <<otherVars, gateVars, exportVars, upstreamVars, cache, pc, status, rootArtistName, caught,
                   rootFetch, graphVars, firstHopVars, firstHopArtists,
                   batchStart, batchResults, selectedSecondHopCandidates,
                   globalSeenNames>>

SecondHopAccepted(result) == result.st = "ok"

\* after Promise.all(secondHopPromises): add the nodes and edges, return
AddSecondHop ==
    /\ pc = "hop2"
    /\ Settled(secondHopResults)
    /\ \E acc \in {Accepted([k \in DOMAIN secondHopResults |->
                                SecondHopAccepted(secondHopResults[k])], 1)} :
       \E added \in {[j \in 1..Len(acc) |->
                        createArtistNode(secondHopResults[acc[j]].val, FALSE, 2)]} :
          /\ nodes' = nodes \o added
          /\ existingNames' = existingNames
                                \cup {toLowerCase(added[j].name) : j \in 1..Len(added)}
          /\ edges' = edges \o Flatten([j \in 1..Len(acc) |-> SecondHopEdges(acc[j])])
    /\ status' = 200
    /\ pc' = "done"
    /\ UNCHANGED <<otherVars, gateVars, exportVars, upstreamVars, cache, failures, rootArtistName, caught,
                   rootFetch, rootSimilarityMap, firstHopVars, secondHopVars>>

----------------------------------------------------------------------------
(* routes/export.js: the CSV formatter, GET /export/csv with its own copy   *)
(* of buildArtistGraph, and POST /export/connections                        *)

NoRootMessage == <<"No root artist found in graph data">>

\* graph.nodes.find(node => node.isRoot): the index of the first root, or 0
FindRoot(g) ==
    IF \E i \in DOMAIN g.nodes : g.nodes[i].isRoot
    THEN CHOOSE i \in DOMAIN g.nodes :
            g.nodes[i].isRoot /\ \A j \in 1..(i - 1) : ~g.nodes[j].isRoot
    ELSE 0

\* the keys an edge is stored under, for the edges that leave the root only
SimilarityKeysOutgoingOnly(edge, rootName) ==
    IF edge.source = rootName THEN {edge.target} ELSE {}

\* the key an edge is stored under in similarityMap: its other end when one
\* end is the root's name, none otherwise
SimilarityKeys(edge, rootName) ==
    IF edge.source = rootName THEN {edge.target}
    ELSE IF edge.target = rootName THEN {edge.source}
    ELSE {}

\* similarityMap after graph.edges.forEach: a later edge overwrites
ExportSimilarityMap(g, rootName) ==
    [k \in UNION {SimilarityKeys(g.edges[e], rootName) : e \in DOMAIN g.edges} |->
        LET last == CHOOSE e \in DOMAIN g.edges :
                        /\ k \in SimilarityKeys(g.edges[e], rootName)
                        /\ \A d \in DOMAIN g.edges :
                              k \in SimilarityKeys(g.edges[d], rootName) => d <= e
        IN g.edges[last].match]

Orbit(hopLevel) ==
    CASE hopLevel = 0 -> "Root"
      [] hopLevel = 1 -> "1st Hop"
      [] hopLevel = 2 -> "2nd Hop"
      [] OTHER -> "Unknown"

\* Math.round(similarityToRoot * 100) of a score kept in hundredths
RoundPercent(similarityToRoot) == (similarityToRoot * 100 + 50) \div 100

\* one data row: the name, the orbit and the percentage of the node
CsvRow(node, similarityMap) ==
    LET found == MapGet(similarityMap, node.name)
        similarityToRoot == IF node.isRoot THEN 100
                            ELSE IF Falsy(found) THEN 0 ELSE found
    IN [name |-> node.name, orbit |-> Orbit(node.hopLevel),
        similarityPercent |-> RoundPercent(similarityToRoot)]

\* the formatter takes the first node for the root when none is flagged
generateCSVFirstNodeAsRoot(g) ==
    LET map == ExportSimilarityMap(g, IF g.nodes = <<>> THEN <<>> ELSE g.nodes[1].name)
    IN [thrown |-> <<>>,
        lines |-> <<"header">> \o [i \in DOMAIN g.nodes |-> CsvRow(g.nodes[i], map)]]

\* generateCSV and generateCSVFromGraph (the same code twice): the header
\* line and one line per node, or the error thrown when no node is the root
generateCSV(g) ==
    IF FindRoot(g) = 0
    THEN [thrown |-> NoRootMessage, lines |-> <<>>]
    ELSE LET map == ExportSimilarityMap(g, g.nodes[FindRoot(g)].name)
         IN [thrown |-> <<>>,
             lines |-> <<"header">> \o [i \in DOMAIN g.nodes |-> CsvRow(g.nodes[i], map)]]

\* a call of the Last.fm client that the upstream answers: cache first
Fetch(q) ==
    IF RequestKey(q) \in DOMAIN cache THEN cache[RequestKey(q)] ELSE RequestValue(q)

\* firstHopResults.forEach of the export's buildArtistGraph
RECURSIVE ExportFirstHop(_, _, _, _)
ExportFirstHop(similar, i, g, processedArtists) ==
    IF i > Len(similar) THEN g
    ELSE LET info == Fetch(InfoRequest(similar[i].name))
             edge == Edge(rootArtistName \o Arrow \o info.name,
                          rootArtistName, info.name, similar[i].match)
             isNew == toLowerCase(info.name) \notin processedArtists
         IN ExportFirstHop(similar, i + 1,
                [nodes |-> IF isNew
                           THEN Append(g.nodes, createArtistNode(info, FALSE, 1))
                           ELSE g.nodes,
                 edges |-> Append(g.edges, edge)],
                processedArtists \cup {toLowerCase(info.name)})

\* buildArtistGraph of the export route, every fetch answered
ExportBuildArtistGraph ==
    LET info == Fetch(InfoRequest(rootArtistName))
        similar == Fetch(SimilarRequest(rootArtistName, limit))
    IN ExportFirstHop(similar, 1,
           [nodes |-> <<createArtistNode(info, TRUE, 0)>>, edges |-> <<>>],
           {toLowerCase(rootArtistName)})

\* the requests the export's buildArtistGraph makes
ExportRequests ==
    LET similar == Fetch(SimilarRequest(rootArtistName, limit))
    IN {InfoRequest(rootArtistName), SimilarRequest(rootArtistName, limit)}
         \cup {InfoRequest(similar[i].name) : i \in DOMAIN similar}

\* GET /export/csv?root=..&depth=..&limit=.. with the query of the map
\* request just served, the upstream answering every request
ExportCsv ==
    /\ pc = "done"
    /\ status = 200
    /\ \E g \in {ExportBuildArtistGraph} :
       \E out \in {generateCSV(g)} :
       \E requests \in {ExportRequests} :
          /\ graph' = g
          /\ csv' = out.lines
          /\ thrown' = out.thrown
          /\ exportStatus' = IF out.thrown = <<>> THEN 200 ELSE 500
          /\ cache' = [k \in DOMAIN cache \cup {RequestKey(q) : q \in requests} |->
                          IF k \in DOMAIN cache THEN cache[k]
                          ELSE RequestValue(CHOOSE q \in requests : RequestKey(q) = k)]
    /\ pc' = "exported"
    /\ UNCHANGED <<otherVars, gateVars, upstreamVars, failures, status, rootArtistName, caught,
                   rootFetch, graphVars, firstHopVars, secondHopVars>>

\* POST /export/connections { nodes, edges }
ExportConnections ==
    /\ pc = "connections"
    /\ exportStatus = 0
    /\ csv' = generateCSV(graph).lines
    /\ thrown' = generateCSV(graph).thrown
    /\ exportStatus' = IF thrown' = <<>> THEN 200 ELSE 500
    /\ UNCHANGED <<otherVars, buildVars, cache, gateVars, graph>>

----------------------------------------------------------------------------

\* no Promise.all of a build awaits more fetches than this
MaxFetches == 50

Next ==
    \/ Receive
    \/ \E i \in 1..2 : RootFetchHit(i)
    \/ \E i \in 1..2 : RootFetchAnswer(i)
    \/ \E i \in 1..2, f \in UpstreamFailures : RootFetchFail(i, f)
    \/ StartFirstHop
    \/ \E i \in 1..MaxFetches : FirstHopHit(i)
    \/ \E i \in 1..MaxFetches : FirstHopAnswer(i)
    \/ \E i \in 1..MaxFetches, f \in FanOutFailures : FirstHopFail(i, f)
    \/ AddFirstHop
    \/ \E j \in 1..batchSize : BatchHit(j)
    \/ \E j \in 1..batchSize : BatchAnswer(j)
    \/ \E j \in 1..batchSize, f \in FanOutFailures : BatchFail(j, f)
    \/ ProcessBatch
    \/ \E k \in 1..MaxFetches : SecondHopHit(k)
    \/ \E k \in 1..MaxFetches : SecondHopAnswer(k)
    \/ \E k \in 1..MaxFetches, f \in FanOutFailures : SecondHopFail(k, f)
    \/ AddSecondHop
    \/ ExportCsv

Spec == Init /\ [][Next]_vars

\* the same handler, serving requests against the wide catalogue
SpecWide == InitWide /\ [][Next]_vars

----------------------------------------------------------------------------
(* The rate gate of one client: makeRequest / processQueue of              *)
(* LastFmService, makeRateLimitedRequest / processQueue of SpotifyService. *)
(* Node runs each piece of code between two awaits without interruption,   *)
(* so an action is one such piece.                                         *)

minRequestInterval == IF gate = "spotify" THEN SpotifyInterval ELSE LastFmInterval

\* what the callers ask the Last.fm client for
GateRequests ==
    {InfoRequest(<<"a">>), InfoRequest(<<"A">>),
     SimilarRequest(<<"a">>, SecondHopFanOut)}

\* one invocation of processQueue, suspended at an await
Loop(p, c, w) == [pc |-> p, cur |-> c, wake |-> w]

\* const {...} = this.requestQueue.shift(); axios.get(...)
Shift(queue) ==
    [processing |-> TRUE,
     loop |-> <<Loop("flight", Head(queue), 0)>>,
     queue |-> Tail(queue),
     sent |-> <<[req |-> Head(queue), at |-> now, answer |-> "none"]>>]

\* the while loop from its condition to its next await, or to its end
WhileLoop(queue, last) ==
    IF queue = <<>>
    THEN [processing |-> FALSE, loop |-> <<>>, queue |-> queue, sent |-> <<>>]
    ELSE LET timeSinceLastRequest == now - last
         IN IF timeSinceLastRequest < minRequestInterval
            THEN [processing |-> TRUE,
                  loop |-> <<Loop("sleep", 0,
                                  now + (minRequestInterval - timeSinceLastRequest))>>,
                  queue |-> queue,
                  sent |-> <<>>]
            ELSE Shift(queue)

\* processQueue without the test of this.processing
processQueueUnguarded(queue) ==
    IF queue = <<>>
    THEN [processing |-> processing, loop |-> <<>>, queue |-> queue, sent |-> <<>>]
    ELSE WhileLoop(queue, lastRequestTime)

\* processQueue as called by makeRequest, up to its first await
processQueue(queue) ==
    IF processing \/ queue = <<>>
    THEN [processing |-> processing, loop |-> <<>>, queue |-> queue, sent |-> <<>>]
    ELSE WhileLoop(queue, lastRequestTime)

ReplaceLoop(l, loop) ==
    SubSeq(drainLoops, 1, l - 1) \o loop \o SubSeq(drainLoops, l + 1, Len(drainLoops))

\* the log entry of the dispatch that is in flight for request r
LastSent(r) ==
    CHOOSE i \in DOMAIN dispatched :
        /\ dispatched[i].req = r
        /\ \A j \in (i + 1)..Len(dispatched) : dispatched[j].req # r

Throttled == {i \in DOMAIN dispatched : dispatched[i].answer = "throttled"}

Call(q, st, val) == [request |-> q, st |-> st, val |-> val, err |-> "none"]

\* a request is pushed and processQueue is called
makeRequest(q) ==
    LET p == processQueue(Append(requestQueue, Len(calls) + 1))
    IN /\ calls' = Append(calls, Call(q, "pending", NoInfo))
       /\ requestQueue' = p.queue
       /\ processing' = p.processing
       /\ drainLoops' = drainLoops \o p.loop
       /\ dispatched' = dispatched \o p.sent

\* the method asks the upstream although the key is cached
CacheHitEnqueues(q) ==
    /\ gate = "lastfm"
    /\ Len(calls) < MaxCalls
    /\ RequestKey(q) \in DOMAIN cache
    /\ makeRequest(q)
    /\ UNCHANGED <<otherVars, buildVars, exportVars, cache, gate, now, lastRequestTime>>

\* getArtistInfo / getSimilarArtists, key in the cache: return cached
CacheHit(q) ==
    /\ gate = "lastfm"
    /\ Len(calls) < MaxCalls
    /\ RequestKey(q) \in DOMAIN cache
    /\ calls' = Append(calls, Call(q, "hit", cache[RequestKey(q)]))
    /\ UNCHANGED <<otherVars, buildVars, exportVars, cache, gate, now, requestQueue, processing,
                   lastRequestTime, drainLoops, dispatched>>

\* getArtistInfo / getSimilarArtists, key not in the cache: makeRequest
CacheMiss(q) ==
    /\ gate = "lastfm"
    /\ Len(calls) < MaxCalls
    /\ RequestKey(q) \notin DOMAIN cache
    /\ makeRequest(q)
    /\ UNCHANGED <<otherVars, buildVars, exportVars, cache, gate, now, lastRequestTime>>

\* a method of SpotifyService calls makeRateLimitedRequest
makeRateLimitedRequest ==
    /\ gate = "spotify"
    /\ Len(calls) < MaxCalls
    /\ makeRequest(InfoRequest(<<"a">>))
    /\ UNCHANGED <<otherVars, buildVars, exportVars, cache, gate, now, lastRequestTime>>

\* the setTimeout of the spacing wait fires: shift and send
TimerFires(l) ==
    /\ l \in DOMAIN drainLoops
    /\ drainLoops[l].pc = "sleep"
    /\ now >= drainLoops[l].wake
    /\ requestQueue # <<>>
    /\ LET p == Shift(requestQueue)
       IN /\ requestQueue' = p.queue
          /\ processing' = p.processing
          /\ drainLoops' = ReplaceLoop(l, p.loop)
          /\ dispatched' = dispatched \o p.sent
    /\ UNCHANGED <<otherVars, buildVars, exportVars, cache, gate, now, lastRequestTime, calls>>

\* the loop written with if instead of while: it ends after one request
RespondOkEndsLoop(l) ==
    /\ l \in DOMAIN drainLoops
    /\ drainLoops[l].pc = "flight"
    /\ LET r == drainLoops[l].cur
           result == RequestValue(calls[r].request)
       IN /\ lastRequestTime' = now
          /\ calls' = [calls EXCEPT ![r].st = "resolved", ![r].val = result]
          /\ cache' = IF gate = "lastfm"
                      THEN setCache(RequestKey(calls[r].request), result)
                      ELSE cache
          /\ processing' = FALSE
          /\ drainLoops' = ReplaceLoop(l, <<>>)
          /\ dispatched' = [dispatched EXCEPT ![LastSent(r)].answer = "ok"]
    /\ UNCHANGED <<otherVars, buildVars, exportVars, gate, now, requestQueue>>

\* axios.get resolves: lastRequestTime, resolve, and the loop goes on
RespondOk(l) ==
    /\ l \in DOMAIN drainLoops
    /\ drainLoops[l].pc = "flight"
    /\ LET r == drainLoops[l].cur
           result == RequestValue(calls[r].request)
           p == WhileLoop(requestQueue, now)
       IN /\ lastRequestTime' = now
          /\ calls' = [calls EXCEPT ![r].st = "resolved", ![r].val = result]
          /\ cache' = IF gate = "lastfm"
                      THEN setCache(RequestKey(calls[r].request), result)
                      ELSE cache
          /\ requestQueue' = p.queue
          /\ processing' = p.processing
          /\ drainLoops' = ReplaceLoop(l, p.loop)
          /\ dispatched' = [dispatched EXCEPT ![LastSent(r)].answer = "ok"] \o p.sent
    /\ UNCHANGED <<otherVars, buildVars, exportVars, gate, now>>

\* axios.get rejects and the gate rejects the request: every error of the
\* Last.fm gate, every error but 429 of the Spotify gate
RespondError(l, kind) ==
    /\ l \in DOMAIN drainLoops
    /\ drainLoops[l].pc = "flight"
    /\ kind = "throttled" => (gate = "lastfm" /\ Cardinality(Throttled) < MaxThrottled)
    /\ LET r == drainLoops[l].cur
           p == WhileLoop(requestQueue, lastRequestTime)
       IN /\ calls' = [calls EXCEPT ![r].st = "rejected", ![r].err = kind]
          /\ requestQueue' = p.queue
          /\ processing' = p.processing
          /\ drainLoops' = ReplaceLoop(l, p.loop)
          /\ dispatched' = [dispatched EXCEPT ![LastSent(r)].answer = kind] \o p.sent
    /\ UNCHANGED <<otherVars, buildVars, exportVars, cache, gate, now, lastRequestTime>>

\* the Spotify gate receives 429: wait 2 seconds
RespondThrottled(l) ==
    /\ l \in DOMAIN drainLoops
    /\ drainLoops[l].pc = "flight"
    /\ gate = "spotify"
    /\ Cardinality(Throttled) < MaxThrottled
    /\ LET r == drainLoops[l].cur
       IN /\ drainLoops' = ReplaceLoop(l, <<Loop("cooldown", r, now + Cooldown)>>)
          /\ dispatched' = [dispatched EXCEPT ![LastSent(r)].answer = "throttled"]
    /\ UNCHANGED <<otherVars, buildVars, exportVars, cache, gate, now, requestQueue, processing,
                   lastRequestTime, calls>>

\* the request goes to the back of the queue after the cooldown
CooldownEndsRequeueBack(l) ==
    /\ l \in DOMAIN drainLoops
    /\ drainLoops[l].pc = "cooldown"
    /\ now >= drainLoops[l].wake
    /\ LET p == WhileLoop(Append(requestQueue, drainLoops[l].cur), lastRequestTime)
       IN /\ requestQueue' = p.queue
          /\ processing' = p.processing
          /\ drainLoops' = ReplaceLoop(l, p.loop)
          /\ dispatched' = dispatched \o p.sent
    /\ UNCHANGED <<otherVars, buildVars, exportVars, cache, gate, now, lastRequestTime, calls>>

\* the 2 seconds are over: requestQueue.unshift, and the loop goes on
CooldownEnds(l) ==
    /\ l \in DOMAIN drainLoops
    /\ drainLoops[l].pc = "cooldown"
    /\ now >= drainLoops[l].wake
    /\ LET p == WhileLoop(<<drainLoops[l].cur>> \o requestQueue, lastRequestTime)
       IN /\ requestQueue' = p.queue
          /\ processing' = p.processing
          /\ drainLoops' = ReplaceLoop(l, p.loop)
          /\ dispatched' = dispatched \o p.sent
    /\ UNCHANGED <<otherVars, buildVars, exportVars, cache, gate, now, lastRequestTime, calls>>

\* time passes: up to the moment the next timer is due; while a request is
\* in flight, until the interval since its dispatch has elapsed; with the
\* gate idle, until the interval since the last answer has elapsed (a
\* longer wait changes nothing the gate reads)
Tick ==
    /\ now < Epoch + MaxElapsed
    /\ \A l \in DOMAIN drainLoops :
          /\ drainLoops[l].pc \in {"sleep", "cooldown"} => now < drainLoops[l].wake
          /\ drainLoops[l].pc = "flight" =>
                now - dispatched[LastSent(drainLoops[l].cur)].at < minRequestInterval
    /\ drainLoops = <<>> =>
          (Len(calls) < MaxCalls /\ now - lastRequestTime < minRequestInterval)
    /\ now' = now + 1
    /\ UNCHANGED <<otherVars, buildVars, exportVars, cache, gate, requestQueue, processing,
                   lastRequestTime, drainLoops, calls, dispatched>>

\* a freshly constructed client; the cache is empty or holds one artist
InitGate ==
    /\ gate \in {"lastfm", "spotify"}
    /\ now = Epoch
    /\ requestQueue = <<>>
    /\ processing = FALSE
    /\ lastRequestTime = 0
    /\ drainLoops = <<>>
    /\ calls = <<>>
    /\ dispatched = <<>>
    /\ canon = "case"
    /\ catalogue = "small"
    /\ cache \in {WarmCache({}), WarmCache({InfoRequest(<<"a">>)})}
    /\ gate = "spotify" => cache = WarmCache({})
    /\ url = <<>>
    /\ depth = 1
    /\ limit = MinLimit
    /\ failures = 0
    /\ pc = "gate"
    /\ status = 0
    /\ rootArtistName = <<>>
    /\ caught = NoError
    /\ rootFetch = <<>>
    /\ rootSimilarityMap = <<>>
    /\ nodes = <<>>
    /\ edges = <<>>
    /\ existingNames = {}
    /\ firstHopResults = <<>>
    /\ firstHopArtists = <<>>
    /\ batchStart = 1
    /\ batchResults = <<>>
    /\ selectedSecondHopCandidates = <<>>
    /\ globalSeenNames = {}
    /\ secondHopResults = <<>>
    /\ ExportIdle
    /\ OthersIdle

\* no client runs more drain loops than this
MaxLoops == 3

NextGate ==
    \/ \E q \in GateRequests : CacheHit(q)
    \/ \E q \in GateRequests : CacheMiss(q)
    \/ makeRateLimitedRequest
    \/ \E l \in 1..MaxLoops : TimerFires(l)
    \/ \E l \in 1..MaxLoops : RespondOk(l)
    \/ \E l \in 1..MaxLoops, kind \in {"throttled", "error"} : RespondError(l, kind)
    \/ \E l \in 1..MaxLoops : RespondThrottled(l)
    \/ \E l \in 1..MaxLoops : CooldownEnds(l)
    \/ Tick

SpecGate == InitGate /\ [][NextGate]_vars

----------------------------------------------------------------------------
(* The Spotify gate over an unbounded run. The clock is read in one place  *)
(* whose outcome is not fixed by the gate itself: the test of the interval *)
(* when a request arrives at an idle gate. That reading is an input of the *)
(* step. After a success lastRequestTime is the present, so the loop       *)
(* sleeps; after a failure or a cooldown the interval since the last       *)
(* success has elapsed, so the loop sends at once.                         *)

\* the while loop from its condition to its next await, the test of the
\* interval given
WhileLoopAt(queue, early) ==
    IF queue = <<>>
    THEN [processing |-> FALSE, loop |-> <<>>, queue |-> queue]
    ELSE IF early
         THEN [processing |-> TRUE, loop |-> <<Loop("sleep", 0, 0)>>, queue |-> queue]
         ELSE [processing |-> TRUE, loop |-> <<Loop("flight", Head(queue), 0)>>,
               queue |-> Tail(queue)]

\* the endpoints searchArtist and getArtistTopTracks ask for
SpotifyUrls == {"search", "top-tracks"}

\* makeRateLimitedRequest: push, then processQueue up to its first await
SpotifyEnqueue(u, early) ==
    /\ gate = "spotify"
    /\ Len(calls) < MaxCalls
    /\ calls' = Append(calls, Call([kind |-> u, name |-> <<"a">>, lim |-> 0],
                                   "pending", NoInfo))
    /\ \E p \in {IF processing
                 THEN [processing |-> TRUE, loop |-> drainLoops,
                       queue |-> Append(requestQueue, Len(calls) + 1)]
                 ELSE WhileLoopAt(<<Len(calls) + 1>>, early)} :
          /\ requestQueue' = p.queue
          /\ processing' = p.processing
          /\ drainLoops' = p.loop
    /\ UNCHANGED <<otherVars, buildVars, exportVars, cache, gate, now, lastRequestTime,
                   dispatched>>

\* the spacing wait is over: shift and send
SpotifySpacingOver ==
    /\ gate = "spotify"
    /\ drainLoops # <<>>
    /\ drainLoops[1].pc = "sleep"
    /\ requestQueue # <<>>
    /\ drainLoops' = <<Loop("flight", Head(requestQueue), 0)>>
    /\ requestQueue' = Tail(requestQueue)
    /\ UNCHANGED <<otherVars, buildVars, exportVars, cache, gate, now, lastRequestTime,
                   dispatched, processing, calls>>

\* the loop goes on after a request was settled
SpotifySettle(st, early) ==
    /\ calls' = [calls EXCEPT ![drainLoops[1].cur].st = st]
    /\ \E p \in {WhileLoopAt(requestQueue, early)} :
          /\ requestQueue' = p.queue
          /\ processing' = p.processing
          /\ drainLoops' = p.loop
    /\ UNCHANGED <<otherVars, buildVars, exportVars, cache, gate, now, lastRequestTime,
                   dispatched>>

\* axios.get resolves: lastRequestTime = Date.now(); resolve(response.data)
SpotifyResolve ==
    /\ gate = "spotify"
    /\ drainLoops # <<>>
    /\ drainLoops[1].pc = "flight"
    /\ SpotifySettle("resolved", TRUE)

\* axios.get rejects with anything but 429: reject(error)
SpotifyReject ==
    /\ gate = "spotify"
    /\ drainLoops # <<>>
    /\ drainLoops[1].pc = "flight"
    /\ SpotifySettle("rejected", FALSE)

\* axios.get rejects with 429: wait 2 seconds
SpotifyTooManyRequests ==
    /\ gate = "spotify"
    /\ drainLoops # <<>>
    /\ drainLoops[1].pc = "flight"
    /\ drainLoops' = <<Loop("cooldown", drainLoops[1].cur, 0)>>
    /\ UNCHANGED <<otherVars, buildVars, exportVars, cache, gate, now, lastRequestTime,
                   dispatched, requestQueue, processing, calls>>

\* the 2 seconds are over: requestQueue.unshift, and the loop goes on
SpotifyCooldownOver ==
    /\ gate = "spotify"
    /\ drainLoops # <<>>
    /\ drainLoops[1].pc = "cooldown"
    /\ \E p \in {WhileLoopAt(<<drainLoops[1].cur>> \o requestQueue, FALSE)} :
          /\ requestQueue' = p.queue
          /\ processing' = p.processing
          /\ drainLoops' = p.loop
    /\ UNCHANGED <<otherVars, buildVars, exportVars, cache, gate, now, lastRequestTime,
                   dispatched, calls>>

\* the upstream returns some response to the request in flight
SpotifyResponse == SpotifyResolve \/ SpotifyReject \/ SpotifyTooManyRequests

\* a freshly constructed Spotify client
InitSpotify ==
    /\ InitGate
    /\ gate = "spotify"

NextSpotify ==
    \/ \E u \in SpotifyUrls, early \in BOOLEAN : SpotifyEnqueue(u, early)
    \/ SpotifySpacingOver
    \/ SpotifyResolve
    \/ SpotifyReject
    \/ SpotifyTooManyRequests
    \/ SpotifyCooldownOver

\* timers fire, and every upstream call returns some response
SpecSpotifyFair ==
    /\ InitSpotify
    /\ [][NextSpotify]_vars
    /\ WF_vars(SpotifySpacingOver)
    /\ WF_vars(SpotifyCooldownOver)
    /\ WF_vars(SpotifyResponse)

----------------------------------------------------------------------------
(* POST /export/connections with the graphs a client may post *)

\* sequences over S of length 0..n
RECURSIVE SeqsUpTo(_, _)
SeqsUpTo(S, n) ==
    IF n = 0 THEN {<<>>}
    ELSE LET shorter == SeqsUpTo(S, n - 1)
         IN shorter \cup {Append(q, x) : q \in {t \in shorter : Len(t) = n - 1}, x \in S}

ClientNames == {<<"r">>, <<"a">>}

ClientNodes ==
    {[id |-> n, name |-> n, isRoot |-> b, hopLevel |-> IF b THEN 0 ELSE 1] :
        n \in ClientNames, b \in BOOLEAN}

ClientEdges ==
    {Edge(s \o Arrow \o t, s, t, m) : s \in ClientNames, t \in ClientNames, m \in {0, 49}}

ClientGraphs ==
    {[nodes |-> ns, edges |-> es] :
        ns \in SeqsUpTo(ClientNodes, MaxNodes), es \in SeqsUpTo(ClientEdges, MaxEdges)}

InitExport ==
    /\ graph \in ClientGraphs
    /\ csv = <<>>
    /\ thrown = <<>>
    /\ exportStatus = 0
    /\ pc = "connections"
    /\ GateIdle
    /\ OthersIdle
    /\ canon = "exact"
    /\ catalogue = "small"
    /\ cache = WarmCache({})
    /\ url = <<>>
    /\ depth = 1
    /\ limit = MinLimit
    /\ failures = 0
    /\ status = 0
    /\ rootArtistName = <<>>
    /\ caught = NoError
    /\ rootFetch = <<>>
    /\ rootSimilarityMap = <<>>
    /\ nodes = <<>>
    /\ edges = <<>>
    /\ existingNames = {}
    /\ firstHopResults = <<>>
    /\ firstHopArtists = <<>>
    /\ batchStart = 1
    /\ batchResults = <<>>
    /\ selectedSecondHopCandidates = <<>>
    /\ globalSeenNames = {}
    /\ secondHopResults = <<>>

NextExport == ExportConnections

SpecExport == InitExport /\ [][NextExport]_vars

----------------------------------------------------------------------------
(* routes/map.js: POST /expand { artistName, limit }                        *)

\* the locals of buildArtistGraph before a build started
BuildIdle ==
    /\ url = <<>>
    /\ depth = 1
    /\ rootArtistName = <<>>
    /\ rootFetch = <<>>
    /\ rootSimilarityMap = <<>>
    /\ existingNames = {}
    /\ firstHopResults = <<>>
    /\ firstHopArtists = <<>>
    /\ batchStart = 1
    /\ batchResults = <<>>
    /\ selectedSecondHopCandidates = <<>>
    /\ globalSeenNames = {}
    /\ secondHopResults = <<>>

\* const [similarData, artistInfo] = await Promise.all([...])
expandSimilar == expandFetch[1].val
expandInfo == expandFetch[2].val

\* the status the catch block of POST /expand replies with
ExpandReplyStatus(error) == IF error.statusCode = 429 THEN 429 ELSE 500

ExpandReceive ==
    /\ pc = "start"
    /\ expandFetch' = <<IssueSimilar(expandArtistName, limit), IssueInfo(expandArtistName)>>
    /\ pc' = "expand"
    /\ UNCHANGED <<clientVars, overtaken, gateVars, exportVars, upstreamVars, cache, failures, status,
                   rootArtistName, caught, rootFetch, graphVars, firstHopVars,
                   secondHopVars, expandArtistName, artistInfos>>

ExpandAnswerOf(i) ==
    IF i = 1 THEN SimilarResult(expandArtistName, limit)
    ELSE ArtistInfoResult(expandArtistName)

ExpandKeyOf(i) ==
    IF i = 1 THEN SimilarKey(expandArtistName, limit) ELSE InfoKey(expandArtistName)

ExpandFetchHit(i) ==
    /\ pc = "expand"
    /\ expandFetch[i].st = "hit"
    /\ expandFetch' = [expandFetch EXCEPT ![i].st = "ok"]
    /\ UNCHANGED <<clientVars, overtaken, gateVars, exportVars, buildVars, cache, expandArtistName, artistInfos>>

ExpandFetchAnswer(i) ==
    /\ pc = "expand"
    /\ AtHeadOfQueue(expandFetch, i)
    /\ expandFetch' = [expandFetch EXCEPT ![i] = [st |-> "ok", val |-> ExpandAnswerOf(i)]]
    /\ cache' = setCache(ExpandKeyOf(i), ExpandAnswerOf(i))
    /\ UNCHANGED <<clientVars, overtaken, gateVars, exportVars, buildVars, expandArtistName, artistInfos>>

\* a rejected fetch rejects Promise.all: the catch block replies
ExpandFetchFail(i, f) ==
    /\ pc = "expand"
    /\ AtHeadOfQueue(expandFetch, i)
    /\ failures < MaxFailures
    /\ failures' = failures + 1
    /\ expandFetch' = [expandFetch EXCEPT ![i].st = "failed"]
    /\ caught' = ThrownError(f)
    /\ status' = ExpandReplyStatus(caught')
    /\ pc' = "done"
    /\ UNCHANGED <<clientVars, overtaken, gateVars, exportVars, upstreamVars, cache, rootArtistName, rootFetch,
                   graphVars, firstHopVars, secondHopVars, expandArtistName, artistInfos>>

\* similarData.similar.map(artist => getArtistInfo(artist.name).catch(...))
StartInfos ==
    /\ pc = "expand"
    /\ \A i \in 1..2 : expandFetch[i].st = "ok"
    /\ artistInfos' = [i \in 1..Len(expandSimilar) |-> IssueInfo(expandSimilar[i].name)]
    /\ pc' = "infos"
    /\ UNCHANGED <<clientVars, overtaken, gateVars, exportVars, upstreamVars, cache, failures, status,
                   rootArtistName, caught, rootFetch, graphVars, firstHopVars,
                   secondHopVars, expandArtistName, expandFetch>>

InfoHit(i) ==
    /\ pc = "infos"
    /\ i \in 1..Len(artistInfos)
    /\ artistInfos[i].st = "hit"
    /\ artistInfos' = [artistInfos EXCEPT ![i].st = "ok"]
    /\ UNCHANGED <<clientVars, overtaken, gateVars, exportVars, buildVars, cache, expandArtistName, expandFetch>>

InfoAnswer(i) ==
    /\ pc = "infos"
    /\ i \in 1..Len(artistInfos)
    /\ AtHeadOfQueue(artistInfos, i)
    /\ \E info \in {ArtistInfoResult(expandSimilar[i].name)} :
          /\ artistInfos' = [artistInfos EXCEPT ![i] = [st |-> "ok", val |-> info]]
          /\ cache' = setCache(InfoKey(expandSimilar[i].name), info)
    /\ UNCHANGED <<clientVars, overtaken, gateVars, exportVars, buildVars, expandArtistName, expandFetch>>

\* .catch(err => ({ name: artist.name, error: true }))
InfoFail(i, f) ==
    /\ pc = "infos"
    /\ i \in 1..Len(artistInfos)
    /\ AtHeadOfQueue(artistInfos, i)
    /\ failures < MaxFailures
    /\ failures' = failures + 1
    /\ artistInfos' = [artistInfos EXCEPT ![i] = [st |-> "failed",
                                                 val |-> [name |-> expandSimilar[i].name]]]
    /\ UNCHANGED <<clientVars, overtaken, gateVars, exportVars, upstreamVars, cache, pc, status, rootArtistName,
                   caught, rootFetch, graphVars, firstHopVars, secondHopVars,
                   expandArtistName, expandFetch>>

\* edges.push({ id: `${artistName}->${similar.name}`, source: artistName,
\*              target: similar.name, ... })
ExpandEdge(i) ==
    Edge(expandArtistName \o Arrow \o expandSimilar[i].name,
         expandArtistName, expandSimilar[i].name, expandSimilar[i].match)

\* after Promise.all(artistInfoPromises): the centre node, then one node and
\* one edge per entry whose info has no error flag
ExpandReply ==
    /\ pc = "infos"
    /\ Settled(artistInfos)
    /\ \E acc \in {Accepted([i \in DOMAIN artistInfos |-> artistInfos[i].st = "ok"], 1)} :
          /\ nodes' = <<createArtistNode(expandInfo, TRUE, 0)>>
                        \o [j \in 1..Len(acc) |->
                               createArtistNode(artistInfos[acc[j]].val, FALSE, 1)]
          /\ edges' = [j \in 1..Len(acc) |-> ExpandEdge(acc[j])]
    /\ status' = 200
    /\ pc' = "done"
    /\ UNCHANGED <<clientVars, overtaken, gateVars, exportVars, upstreamVars, cache, failures, rootArtistName,
                   caught, rootFetch, rootSimilarityMap, existingNames, firstHopVars,
                   secondHopVars, expandVars>>

\* the artists a client asks to expand
ExpandNames == {<<"r">>, <<"a">>, <<"c">>}

InitExpand ==
    /\ expandArtistName \in ExpandNames
    /\ limit \in MinLimit..MaxLimit
    /\ canon \in Directories
    /\ catalogue \in Catalogues
    /\ \E requests \in WarmRequests : cache = WarmCache(requests)
    /\ failures = 0
    /\ pc = "start"
    /\ status = 0
    /\ caught = NoError
    /\ nodes = <<>>
    /\ edges = <<>>
    /\ expandFetch = <<>>
    /\ artistInfos = <<>>
    /\ overtaken = FALSE
    /\ ClientIdle
    /\ BuildIdle
    /\ GateIdle
    /\ ExportIdle

NextExpand ==
    \/ ExpandReceive
    \/ \E i \in 1..2 : ExpandFetchHit(i)
    \/ \E i \in 1..2 : ExpandFetchAnswer(i)
    \/ \E i \in 1..2, f \in UpstreamFailures : ExpandFetchFail(i, f)
    \/ StartInfos
    \/ \E i \in 1..MaxFetches : InfoHit(i)
    \/ \E i \in 1..MaxFetches : InfoAnswer(i)
    \/ \E i \in 1..MaxFetches, f \in FanOutFailures : InfoFail(i, f)
    \/ ExpandReply

SpecExpand == InitExpand /\ [][NextExpand]_vars

----------------------------------------------------------------------------
(* backend/src/routes/map.js: POST /map with the simple buildArtistGraph,   *)
(* which awaits its fetches one after the other                             *)

\* the status the catch block of this POST /map replies with
SimpleReplyStatus(error) ==
    IF error.statusCode = 429 THEN 429
    ELSE IF error.notFound THEN 404
    ELSE 500

\* createArtistNode(artistInfo, isRoot) of the simple builder
createSimpleNode(artistInfo, isRoot) ==
    [id |-> artistInfo.name, name |-> artistInfo.name, isRoot |-> isRoot]

\* a call is rejected when the cache does not serve it and the upstream
\* fails the request
Rejected(q, c, failing) ==
    RequestKey(q) \notin DOMAIN c /\ q \in failing

\* what an answered call returns: the cached value, or the upstream's
Answer(q, c) ==
    IF RequestKey(q) \in DOMAIN c THEN c[RequestKey(q)] ELSE RequestValue(q)

\* the cache after an answered call
Store(q, c) ==
    [k \in DOMAIN c \cup {RequestKey(q)} |->
        IF k \in DOMAIN c THEN c[k] ELSE RequestValue(q)]

\* for (const similar of rootSimilar.similar.slice(0, limit)) { try ... }
RECURSIVE SimpleFirstHop(_, _, _, _, _, _)
SimpleFirstHop(similar, i, rootName, g, c, failing) ==
    IF i > Len(similar) THEN [nodes |-> g.nodes, edges |-> g.edges, cache |-> c]
    ELSE LET q == InfoRequest(similar[i].name)
             artistInfo == Answer(q, c)
         IN IF Rejected(q, c, failing)
            THEN SimpleFirstHop(similar, i + 1, rootName, g, c, failing)
            ELSE IF artistInfo.name = rootName
            THEN SimpleFirstHop(similar, i + 1, rootName, g, Store(q, c), failing)
            ELSE SimpleFirstHop(similar, i + 1, rootName,
                    [nodes |-> Append(g.nodes, createSimpleNode(artistInfo, FALSE)),
                     edges |-> Append(g.edges,
                                  Edge(rootName \o Arrow \o artistInfo.name,
                                       rootName, artistInfo.name, similar[i].match))],
                    Store(q, c), failing)

\* for (const similar of similarData.similar.slice(0, 2)) { try ... }
RECURSIVE SimpleFromSource(_, _, _, _, _, _, _, _)
SimpleFromSource(similar, k, sourceNode, rootName, g, existing, c, failing) ==
    IF k > Len(similar)
    THEN [nodes |-> g.nodes, edges |-> g.edges, existing |-> existing, cache |-> c]
    ELSE LET q == InfoRequest(similar[k].name)
             artistInfo == Answer(q, c)
         IN IF \/ similar[k].name = rootName
               \/ similar[k].name \in existing
               \/ similar[k].name = sourceNode.name
               \/ Rejected(q, c, failing)
            THEN SimpleFromSource(similar, k + 1, sourceNode, rootName, g, existing,
                                  c, failing)
            ELSE SimpleFromSource(similar, k + 1, sourceNode, rootName,
                    [nodes |-> Append(g.nodes, createSimpleNode(artistInfo, FALSE)),
                     edges |-> Append(g.edges,
                                  Edge(sourceNode.name \o Arrow \o artistInfo.name,
                                       sourceNode.name, artistInfo.name,
                                       similar[k].match))],
                    existing \cup {artistInfo.name}, Store(q, c), failing)

\* for (const sourceNode of firstHopArtists) { try ... }
RECURSIVE SimpleSecondHop(_, _, _, _, _, _, _)
SimpleSecondHop(sources, s, rootName, g, existing, c, failing) ==
    IF s > Len(sources) THEN [nodes |-> g.nodes, edges |-> g.edges, cache |-> c]
    ELSE LET q == SimilarRequest(sources[s].name, SecondHopFanOut)
         IN IF Rejected(q, c, failing)
            THEN SimpleSecondHop(sources, s + 1, rootName, g, existing, c, failing)
            ELSE LET t == SimpleFromSource(Take(Answer(q, c), maxPerSource), 1,
                                           sources[s], rootName, g, existing,
                                           Store(q, c), failing)
                 IN SimpleSecondHop(sources, s + 1, rootName,
                                    [nodes |-> t.nodes, edges |-> t.edges],
                                    t.existing, t.cache, failing)

\* the simple buildArtistGraph once both root fetches were answered
SimpleBuildArtistGraph(name, c, failing) ==
    LET qInfo == InfoRequest(name)
        qSimilar == SimilarRequest(name, limit)
        rootRecord == Answer(qInfo, c)
        similar == Answer(qSimilar, c)
        first == SimpleFirstHop(Take(similar, limit), 1, rootRecord.name,
                                [nodes |-> <<createSimpleNode(rootRecord, TRUE)>>,
                                 edges |-> <<>>],
                                Store(qSimilar, Store(qInfo, c)), failing)
    IN IF depth > 1
       THEN SimpleSecondHop(Take(SelectSeq(first.nodes, LAMBDA n : ~n.isRoot),
                                 MaxFirstHopSources),
                            1, rootRecord.name,
                            [nodes |-> first.nodes, edges |-> first.edges],
                            {first.nodes[n].name : n \in DOMAIN first.nodes},
                            first.cache, failing)
       ELSE first

\* the per-artist requests an upstream failure may hit
Failable ==
    {InfoRequest(<<"a">>), InfoRequest(<<"c">>), InfoRequest(<<"d">>),
     InfoRequest(<<"e">>), InfoRequest(<<"h">>),
     SimilarRequest(<<"a">>, SecondHopFanOut), SimilarRequest(<<"c">>, SecondHopFanOut)}

\* POST /map of backend/src/routes/map.js, both root fetches answered
SimpleMap(failing) ==
    /\ pc = "start"
    /\ Cardinality(failing) <= MaxFailures
    /\ rootArtistName' = parseArtistInput(url)
    /\ IF rootArtistName' = <<>>
       THEN /\ failing = {}
            /\ status' = 400
            /\ UNCHANGED <<nodes, edges, cache>>
       ELSE \E g \in {SimpleBuildArtistGraph(rootArtistName', cache, failing)} :
               /\ nodes' = g.nodes
               /\ edges' = g.edges
               /\ status' = 200
               /\ cache' = g.cache
    /\ caught' = caught
    /\ pc' = "done"
    /\ UNCHANGED <<otherVars, gateVars, exportVars, upstreamVars, failures,
                   rootFetch, rootSimilarityMap, existingNames, firstHopVars,
                   secondHopVars>>

\* a rejected root fetch rejects Promise.all: the catch block replies
SimpleRootFail(f) ==
    /\ pc = "start"
    /\ rootArtistName' = parseArtistInput(url)
    /\ rootArtistName' # <<>>
    /\ \/ InfoKey(rootArtistName') \notin DOMAIN cache
       \/ SimilarKey(rootArtistName', limit) \notin DOMAIN cache
    /\ caught' = ThrownError(f)
    /\ status' = SimpleReplyStatus(caught')
    /\ pc' = "done"
    /\ UNCHANGED <<otherVars, gateVars, exportVars, upstreamVars, cache, failures,
                   rootFetch, graphVars, firstHopVars, secondHopVars>>

InitSimple ==
    /\ url \in {<<"r", " ">>, <<" ">>}
    /\ depth \in 1..2
    /\ limit \in MinLimit..MaxLimit
    /\ canon \in Directories
    /\ catalogue \in Catalogues
    /\ \E requests \in WarmRequests : cache = WarmCache(requests)
    /\ failures = 0
    /\ pc = "start"
    /\ status = 0
    /\ rootArtistName = <<>>
    /\ caught = NoError
    /\ rootFetch = <<>>
    /\ rootSimilarityMap = <<>>
    /\ nodes = <<>>
    /\ edges = <<>>
    /\ existingNames = {}
    /\ firstHopResults = <<>>
    /\ firstHopArtists = <<>>
    /\ batchStart = 1
    /\ batchResults = <<>>
    /\ selectedSecondHopCandidates = <<>>
    /\ globalSeenNames = {}
    /\ secondHopResults = <<>>
    /\ GateIdle
    /\ ExportIdle
    /\ OthersIdle

NextSimple ==
    \/ \E failing \in SUBSET Failable : SimpleMap(failing)
    \/ \E f \in UpstreamFailures : SimpleRootFail(f)

SpecSimple == InitSimple /\ [][NextSimple]_vars

----------------------------------------------------------------------------
(* The client: App.handleGraphDataUpdate and App.handleExpandNode. A call  *)
(* of handleExpandNode runs the function of the render in which the drawer *)
(* received it, so the graphData it reads after the await is the one of    *)
(* that render.                                                            *)

\* apiService.expandNode(artistName, 25)
ClientExpandLimit == 25

\* the reply of POST /expand when the upstream answers every request
ExpandResponse(artistName) ==
    LET similar == SimilarResult(artistName, ClientExpandLimit)
    IN [nodes |-> <<createArtistNode(ArtistInfoResult(artistName), TRUE, 0)>>
                    \o [i \in DOMAIN similar |->
                           createArtistNode(ArtistInfoResult(similar[i].name), FALSE, 1)],
        edges |-> [i \in DOMAIN similar |->
                      Edge(artistName \o Arrow \o similar[i].name,
                           artistName, similar[i].name, similar[i].match)]]

\* the merge of a response into the graphData the closure holds
MergeInto(held, response) ==
    LET existingNodeIds == {held.nodes[n].id : n \in DOMAIN held.nodes}
        newNodes == SelectSeq(response.nodes, LAMBDA node : node.id \notin existingNodeIds)
    IN [nodes |-> held.nodes \o newNodes,
        edges |-> held.edges \o response.edges]

\* InputBar hands over the reply of POST /map for the root artist
handleGraphDataUpdate ==
    /\ pc = "client"
    /\ graphData.nodes = <<>>
    /\ expands = <<>>
    /\ \E g \in {SimpleBuildArtistGraph(<<"r">>, cache, {})} :
          graphData' = [nodes |-> g.nodes, edges |-> g.edges]
    /\ UNCHANGED <<expandVars, expands, overtaken, buildVars, cache, gateVars, exportVars>>

\* the drawer of a selected node calls onExpand(artist.name)
handleExpandNode(n) ==
    /\ pc = "client"
    /\ n \in DOMAIN graphData.nodes
    /\ Len(expands) < MaxExpands
    /\ expands' = Append(expands, [artistName |-> graphData.nodes[n].name,
                                   graphData |-> graphData,
                                   st |-> "flight"])
    /\ UNCHANGED <<expandVars, graphData, overtaken, buildVars, cache, gateVars, exportVars>>

\* the await of expandNode resolves: merge and setGraphData
ExpandResolved(x) ==
    /\ pc = "client"
    /\ x \in DOMAIN expands
    /\ expands[x].st = "flight"
    /\ graphData' = MergeInto(expands[x].graphData, ExpandResponse(expands[x].artistName))
    /\ expands' = [expands EXCEPT ![x].st = "merged"]
    /\ UNCHANGED <<expandVars, overtaken, buildVars, cache, gateVars, exportVars>>

\* the await rejects: the catch block shows a toast
ExpandRejected(x) ==
    /\ pc = "client"
    /\ x \in DOMAIN expands
    /\ expands[x].st = "flight"
    /\ expands' = [expands EXCEPT ![x].st = "failed"]
    /\ UNCHANGED <<expandVars, graphData, overtaken, buildVars, cache, gateVars, exportVars>>

\* the page after loading, the server's cache empty and the upstream's
\* lists carrying the names its records have
InitClient ==
    /\ ClientIdle
    /\ pc = "client"
    /\ url = <<>>
    /\ depth = 1
    /\ limit \in MinLimit..MaxLimit
    /\ canon = "exact"
    /\ catalogue \in Catalogues
    /\ cache = WarmCache({})
    /\ failures = 0
    /\ status = 0
    /\ rootArtistName = <<>>
    /\ caught = NoError
    /\ rootFetch = <<>>
    /\ rootSimilarityMap = <<>>
    /\ nodes = <<>>
    /\ edges = <<>>
    /\ existingNames = {}
    /\ firstHopResults = <<>>
    /\ firstHopArtists = <<>>
    /\ batchStart = 1
    /\ batchResults = <<>>
    /\ selectedSecondHopCandidates = <<>>
    /\ globalSeenNames = {}
    /\ secondHopResults = <<>>
    /\ GateIdle
    /\ ExportIdle
    /\ ExpandIdle
    /\ overtaken = FALSE

\* no graph of the client has more nodes than this
MaxShown == 30

NextClient ==
    \/ handleGraphDataUpdate
    \/ \E n \in 1..MaxShown : handleExpandNode(n)
    \/ \E x \in 1..MaxExpands : ExpandResolved(x)
    \/ \E x \in 1..MaxExpands : ExpandRejected(x)

SpecClient == InitClient /\ [][NextClient]_vars

----------------------------------------------------------------------------
(* Properties of the returned graph *)

\* the build returned { nodes, edges, stats } and the handler replied with it
Returned == pc = "done" /\ status = 200

RootResolved ==
    /\ Len(rootFetch) = 2
    /\ \A i \in 1..2 : rootFetch[i].st = "ok"

RootFailed ==
    /\ pc = "done"
    /\ \E i \in DOMAIN rootFetch : rootFetch[i].st = "failed"

NodeNames == {nodes[i].name : i \in DOMAIN nodes}

HopNodes(h) == {i \in DOMAIN nodes : nodes[i].hopLevel = h}

FailedFirstHop == {i \in DOMAIN firstHopResults : firstHopResults[i].st = "failed"}
ResolvedFirstHop == {i \in DOMAIN firstHopResults : firstHopResults[i].st = "ok"}
ResolvedSecondHop == {k \in DOMAIN secondHopResults : secondHopResults[k].st = "ok"}

\* C1: in a returned graph no two nodes have names that are equal after
\* lowercasing.
C1_UniqueLowercaseNames ==
    Returned =>
        \A i, j \in DOMAIN nodes :
            i # j => toLowerCase(nodes[i].name) # toLowerCase(nodes[j].name)

\* C2: in a returned graph every edge's source and every edge's target is
\* the name of a node of the same graph, whichever fetches failed.
C2_NoDanglingEdges ==
    Returned =>
        \A e \in DOMAIN edges :
            /\ edges[e].source \in NodeNames
            /\ edges[e].target \in NodeNames

\* a two-hop graph, built although a fetch failed, with an edge that does
\* not start at the root
C2_Witness ==
    /\ Returned
    /\ depth = 2
    /\ failures > 0
    /\ \E e \in DOMAIN edges : edges[e].source # nodes[1].name

\* C3: the first node of a returned graph is the root (isRoot, hopLevel 0)
\* and no other node has isRoot.
C3_RootFirstAndOnly ==
    Returned =>
        /\ Len(nodes) >= 1
        /\ nodes[1].isRoot
        /\ nodes[1].hopLevel = 0
        /\ \A i \in 2..Len(nodes) : ~nodes[i].isRoot

C3_Witness ==
    /\ Returned
    /\ HopNodes(1) # {}
    /\ HopNodes(2) # {}

\* C4: in a returned graph no two edges have the same id.
C4_UniqueEdgeIds ==
    Returned =>
        \A i, j \in DOMAIN edges : i # j => edges[i].id # edges[j].id

\* C5 as stated: when the fetch of first-hop candidate X failed and the
\* root resolved, the build returns a graph in which X is not a node, no
\* edge has X as source or target, and every other resolved candidate is a
\* node.
C5_FailedCandidateAbsent ==
    (pc = "done" /\ RootResolved) =>
        /\ status = 200
        /\ \A i \in FailedFirstHop :
              LET X == rootSimilar[i].name
              IN /\ X \notin NodeNames
                 /\ \A e \in DOMAIN edges : edges[e].source # X /\ edges[e].target # X
                 /\ \A j \in ResolvedFirstHop : firstHopResults[j].val.name \in NodeNames

\* C5, amended: when the fetch of first-hop candidate X failed and the root
\* resolved, the build still returns a graph and no error reaches the
\* caller; the failed fetch adds no node and no edge (there are as many
\* hopLevel-1 nodes, and as many edges, as fetches that resolved to a
\* non-root name); every other resolved candidate is a node; X is the name
\* of a node or of an edge's end only if another fetch resolved to the name
\* X, so for depth 1 with no other entry resolving to X it is absent.
C5_FailedCandidateSkipped ==
    (pc = "done" /\ RootResolved) =>
        /\ status = 200
        /\ \A i \in FailedFirstHop :
              LET X == rootSimilar[i].name
                  kept == {j \in ResolvedFirstHop :
                              toLowerCase(firstHopResults[j].val.name)
                                  # toLowerCase(rootInfo.name)}
                  elsewhere ==
                      \/ rootInfo.name = X
                      \/ \E j \in ResolvedFirstHop : firstHopResults[j].val.name = X
                      \/ \E k \in ResolvedSecondHop : secondHopResults[k].val.name = X
              IN /\ Cardinality(HopNodes(1)) = Cardinality(kept)
                 /\ depth = 1 => Len(edges) = Cardinality(kept)
                 /\ \A j \in ResolvedFirstHop : firstHopResults[j].val.name \in NodeNames
                 /\ X \in NodeNames => elsewhere
                 /\ \A e \in DOMAIN edges :
                       (edges[e].source = X \/ edges[e].target = X) => elsewhere
                 /\ (depth = 1 /\ ~elsewhere) =>
                       /\ X \notin NodeNames
                       /\ \A e \in DOMAIN edges :
                             edges[e].source # X /\ edges[e].target # X

\* a first-hop fetch of X failed, and X is a second-hop node of the graph
C5_Witness ==
    /\ Returned
    /\ \E i \in FailedFirstHop :
          \E n \in HopNodes(2) : nodes[n].name = rootSimilar[i].name

\* C6 as stated: when a root fetch fails, no graph is returned and the
\* status is 404 for NotFound, 429 for RateLimited and 500 for every other
\* failure.
C6_StatusByKind ==
    RootFailed =>
        /\ nodes = <<>>
        /\ status = (IF caught.statusCode = 429 THEN 429
                     ELSE IF caught.notFound THEN 404
                     ELSE 500)

\* C6, amended: when a root fetch fails, no graph is returned and the
\* status is 429 for RateLimited, 504 for a failure whose message says
\* timeout, 404 for NotFound, and 500 for every other failure.
C6_StatusByKindOrTimeout ==
    RootFailed =>
        /\ nodes = <<>>
        /\ edges = <<>>
        /\ caught.statusCode = 429 => status = 429
        /\ (caught.statusCode # 429 /\ caught.timeout) => status = 504
        /\ (caught.statusCode # 429 /\ ~caught.timeout /\ caught.notFound)
              => status = 404
        /\ (caught.statusCode # 429 /\ ~caught.timeout /\ ~caught.notFound)
              => status = 500

\* the fetch of the root's similarity list timed out
C6_Witness ==
    /\ RootFailed
    /\ rootFetch[2].st = "failed"
    /\ caught.timeout

\* C7: for depth 1, when no fetch of the first k = min(limit, list length)
\* entries failed and the entries resolve to distinct non-root artists, the
\* graph has 1 + k nodes and k edges, and the i-th edge goes from the root
\* to the artist the i-th entry resolved to, with that entry's score.
C7_DepthOneShape ==
    LET k == Min(limit, Len(rootSimilar))
        resolved(i) == toLowerCase(Canon(canon, rootSimilar[i].name))
    IN (/\ Returned
        /\ depth = 1
        /\ FailedFirstHop = {}
        /\ \A i \in 1..k : resolved(i) # toLowerCase(rootInfo.name)
        /\ \A i, j \in 1..k : i # j => resolved(i) # resolved(j))
       => /\ Len(nodes) = 1 + k
          /\ Len(edges) = k
          /\ \A i \in 1..k :
                /\ nodes[i + 1].name = Canon(canon, rootSimilar[i].name)
                /\ edges[i].source = nodes[1].name
                /\ edges[i].target = nodes[i + 1].name
                /\ edges[i].weight = rootSimilar[i].match

\* five entries of a longer list, resolved to names that differ from the
\* listed ones
C7_Witness ==
    /\ Returned
    /\ depth = 1
    /\ FailedFirstHop = {}
    /\ canon = "case"
    /\ limit < Len(Catalogue(catalogue, rootInfo.name))
    /\ Len(nodes) = 1 + limit
    /\ nodes[2].name # rootSimilar[1].name

\* C8: in a returned graph every non-root node has hopLevel 1 or 2, and
\* every hopLevel-1 node is the target of an edge whose source is the
\* root's name.
C8_HopLevels ==
    Returned =>
        \A i \in 2..Len(nodes) :
            /\ nodes[i].hopLevel \in {1, 2}
            /\ nodes[i].hopLevel = 1 =>
                  \E e \in DOMAIN edges :
                      /\ edges[e].source = nodes[1].name
                      /\ edges[e].target = nodes[i].name

\* a graph with nodes of both hop levels whose root was renamed by the
\* upstream
C8_Witness ==
    /\ Returned
    /\ nodes[1].name # rootArtistName
    /\ HopNodes(1) # {}
    /\ HopNodes(2) # {}

\* C9: a returned graph has no hopLevel-2 node for depth 1 and at most 16
\* for depth 2: at most 8 first-hop nodes are expansion sources and at most
\* 2 candidates are taken from each.
C9_SecondHopBound ==
    /\ Len(firstHopArtists) <= 8
    /\ \A src \in DOMAIN firstHopArtists :
          Cardinality({k \in DOMAIN selectedSecondHopCandidates :
              selectedSecondHopCandidates[k].parentNode = firstHopArtists[src]}) <= 2
    /\ Returned =>
          /\ depth = 1 => HopNodes(2) = {}
          /\ Cardinality(HopNodes(2)) <= 16

\* more than 8 first-hop nodes, each with more than 2 candidates, and 16
\* second-hop nodes
C9_Witness ==
    /\ Returned
    /\ depth = 2
    /\ Cardinality(HopNodes(1)) > 8
    /\ Cardinality(HopNodes(2)) = 16

\* C10: for a second-hop candidate whose resolved name is not in the
\* root's similarity lookup, the root-relative similarity is
\* min(0.5, sqrt(r * s)), a number in [0, 0.5], r being the root list's
\* score of the candidate's source and s the source's score of the
\* candidate.
C10_IndirectSimilarity ==
    \A k \in ResolvedSecondHop :
        LET result == secondHopResults[k]
            candidate == selectedSecondHopCandidates[k]
        IN toLowerCase(result.val.name) \notin DOMAIN rootSimilarityMap =>
              /\ result.rootSimilarity \in 0..50
              /\ \E i \in DOMAIN rootSimilar :
                    /\ toLowerCase(rootSimilar[i].name)
                          = toLowerCase(candidate.parentNode.name)
                    /\ result.rootSimilarity =
                          Min(50, Sqrt(rootSimilar[i].match * candidate.parentSimilarity))

\* C11: for a resolved second-hop candidate whose lowercased resolved name is
\* a key of the root's similarity lookup, the root-relative similarity used
\* is the score stored under that key, whatever the score in [0, 1].
C11_DirectSimilarity ==
    \A k \in ResolvedSecondHop :
        LET key == toLowerCase(secondHopResults[k].val.name)
        IN key \in DOMAIN rootSimilarityMap =>
              secondHopResults[k].rootSimilarity = rootSimilarityMap[key]

\* the second-hop results that became nodes, in the order they were added
SecondHopAdded ==
    Accepted([k \in DOMAIN secondHopResults |-> secondHopResults[k].st = "ok"], 1)

\* the number of edges the j-th added second-hop node should bring
EdgesOf(j) ==
    IF secondHopResults[SecondHopAdded[j]].rootSimilarity > 10 THEN 2 ELSE 1

RECURSIVE EdgesBefore(_)
EdgesBefore(j) == IF j <= 1 THEN 0 ELSE EdgesBefore(j - 1) + EdgesOf(j - 1)

\* C12: the edges of a returned graph that follow the first-hop edges are,
\* for each second-hop node in the order added, one edge from its hop-1
\* source weighted with the source's score for it, followed by one edge from
\* the root weighted with its root-relative similarity exactly when that
\* similarity is greater than 0.1; there are no other edges.
C12_SecondHopEdges ==
    Returned =>
        LET h1 == Cardinality(HopNodes(1))
            m == Len(SecondHopAdded)
        IN /\ Cardinality(HopNodes(2)) = m
           /\ Len(edges) = h1 + EdgesBefore(m + 1)
           /\ \A j \in 1..m :
                 LET k == SecondHopAdded[j]
                     node == nodes[1 + h1 + j]
                     sim == secondHopResults[k].rootSimilarity
                     first == edges[h1 + EdgesBefore(j) + 1]
                 IN /\ node.hopLevel = 2
                    /\ node.name = secondHopResults[k].val.name
                    /\ first.source = selectedSecondHopCandidates[k].parentNode.name
                    /\ first.target = node.name
                    /\ first.weight = selectedSecondHopCandidates[k].parentSimilarity
                    /\ sim > 10 =>
                          LET second == edges[h1 + EdgesBefore(j) + 2]
                          IN /\ second.source = nodes[1].name
                             /\ second.target = node.name
                             /\ second.weight = sim
                    /\ sim <= 10 => EdgesOf(j) = 1

\* one second-hop node at exactly 0.1 and one above it in the same graph
C12_Witness ==
    /\ Returned
    /\ \E k \in ResolvedSecondHop : secondHopResults[k].rootSimilarity = 10
    /\ \E k \in ResolvedSecondHop : secondHopResults[k].rootSimilarity > 10
    /\ \E k \in ResolvedSecondHop : secondHopResults[k].rootSimilarity = NaN

----------------------------------------------------------------------------
(* Properties of the rate gate *)

InFlight == {l \in DOMAIN drainLoops : drainLoops[l].pc = "flight"}

\* C13: at every moment at most one upstream request of a client is in
\* flight and at most one drain loop of its gate is running, however the
\* calls interleave with the gate's steps.
C13_OneInFlight ==
    /\ Cardinality(InFlight) <= 1
    /\ Len(drainLoops) <= 1
    /\ processing <=> drainLoops # <<>>

\* a request in flight while another call has queued a second request
C13_Witness ==
    /\ InFlight # {}
    /\ requestQueue # <<>>
    /\ \E c \in DOMAIN calls : c > 1 /\ calls[c].st = "pending"

\* C14: two consecutive dispatches of a gate are at least the gate's minimum
\* interval apart, whatever the outcome of the earlier one.
C14_MinimumSpacing ==
    \A i \in 2..Len(dispatched) :
        dispatched[i].at - dispatched[i - 1].at >= minRequestInterval

\* C15: in the Spotify gate requests are dispatched in enqueue order; a
\* request answered 429 stays pending, is held by the gate (cooling down or
\* at the head of the queue) and is the next request dispatched.
C15_ThrottledRetriedFirst ==
    gate = "spotify" =>
        /\ \A i, j \in DOMAIN dispatched :
              i < j => dispatched[i].req <= dispatched[j].req
        /\ \A i \in DOMAIN dispatched :
              dispatched[i].answer = "throttled" =>
                  LET r == dispatched[i].req
                  IN /\ i < Len(dispatched) => dispatched[i + 1].req = r
                     /\ i = Len(dispatched) =>
                           /\ calls[r].st = "pending"
                           /\ \/ \E l \in DOMAIN drainLoops :
                                    drainLoops[l].pc = "cooldown" /\ drainLoops[l].cur = r
                              \/ requestQueue # <<>> /\ Head(requestQueue) = r
        /\ \A r \in DOMAIN calls :
              calls[r].st \in {"resolved", "rejected"} =>
                  dispatched[LastSent(r)].answer \in {"ok", "error"}

\* a request throttled, retried after the cooldown, and followed by a
\* request that was enqueued meanwhile
C15_Witness ==
    /\ gate = "spotify"
    /\ \E i \in DOMAIN dispatched :
          /\ dispatched[i].answer = "throttled"
          /\ i + 2 <= Len(dispatched)
          /\ dispatched[i + 1].req = dispatched[i].req
          /\ dispatched[i + 1].at >= dispatched[i].at + Cooldown
          /\ dispatched[i + 2].req > dispatched[i].req

\* C17: a call of getArtistInfo or getSimilarArtists whose normalized key is
\* in the cache returns the cached value and leaves the gate as it was: the
\* queue, the drain loop, the requests sent and lastRequestTime are
\* unchanged.
C17_CacheHitBypassesGate ==
    [][(/\ gate = "lastfm"
        /\ Len(calls') = Len(calls) + 1
        /\ RequestKey(calls'[Len(calls')].request) \in DOMAIN cache)
       => (/\ calls'[Len(calls')].st = "hit"
           /\ calls'[Len(calls')].val = cache[RequestKey(calls'[Len(calls')].request)]
           /\ requestQueue' = requestQueue
           /\ drainLoops' = drainLoops
           /\ dispatched' = dispatched
           /\ processing' = processing
           /\ lastRequestTime' = lastRequestTime
           /\ now' = now
           /\ cache' = cache)]_vars

\* a cached answer returned for a name in another case while the gate is
\* busy with a request in flight
C17_Witness ==
    /\ Len(calls) = 2
    /\ calls[1].st = "pending"
    /\ InFlight # {}
    /\ calls[2].st = "hit"
    /\ calls[2].request = InfoRequest(<<"A">>)
    /\ InfoKey(<<"A">>) = InfoKey(<<"a">>)
    /\ calls[2].val = ArtistInfoResult(<<"a">>)

----------------------------------------------------------------------------
(* Throttling during the fan-out *)

\* C16: a per-artist fetch of the fan-out that the upstream answered with
\* 429 is retried by the gate and does not end as a failure, so in the
\* returned graph the artist of a throttled first-hop or second-hop fetch is
\* a node.
C16_ThrottlingNeverSkips ==
    Returned =>
        /\ \A i \in FailedFirstHop :
              firstHopResults[i].val.statusCode = 429 =>
                  Canon(canon, rootSimilar[i].name) \in NodeNames
        /\ \A k \in DOMAIN secondHopResults :
              (secondHopResults[k].st = "failed"
                  /\ secondHopResults[k].val.statusCode = 429) =>
                  Canon(canon, selectedSecondHopCandidates[k].artistName) \in NodeNames

----------------------------------------------------------------------------
(* Properties of the export *)

Formatted == exportStatus # 0

\* the data rows: the lines after the header
DataRows == Tail(csv)

\* the matches of the edges that join the name n and the root's name
RootMatches(g, n) ==
    LET rootName == g.nodes[FindRoot(g)].name
    IN {g.edges[e].match : e \in {d \in DOMAIN g.edges :
            \/ g.edges[d].source = rootName /\ g.edges[d].target = n
            \/ g.edges[d].target = rootName /\ g.edges[d].source = n}}

\* C18: for a graph with a root node the formatter emits one data row per
\* node, in node order; the row of a root shows 100%, the row of another
\* node shows the similarity of an edge joining it to the root in either
\* direction, or 0% when there is no such edge; the root alone without
\* edges gives one row with 100%.
C18_OneRowPerNode ==
    (Formatted /\ FindRoot(graph) # 0) =>
        /\ exportStatus = 200
        /\ Len(csv) = 1 + Len(graph.nodes)
        /\ \A i \in DOMAIN graph.nodes :
              LET node == graph.nodes[i]
                  row == DataRows[i]
              IN /\ row.name = node.name
                 /\ node.isRoot => row.similarityPercent = 100
                 /\ (~node.isRoot /\ RootMatches(graph, node.name) # {}) =>
                       row.similarityPercent \in RootMatches(graph, node.name)
                 /\ (~node.isRoot /\ RootMatches(graph, node.name) = {}) =>
                       row.similarityPercent = 0
        /\ (Len(graph.nodes) = 1 /\ graph.edges = <<>>) =>
              (Len(DataRows) = 1 /\ DataRows[1].similarityPercent = 100)

\* a node joined to the root by an edge that ends at the root, and a node
\* without an edge to the root
C18_Witness ==
    /\ Formatted
    /\ FindRoot(graph) # 0
    /\ \E i, j \in DOMAIN graph.nodes :
          /\ ~graph.nodes[i].isRoot
          /\ DataRows[i].similarityPercent = 49
          /\ \A e \in DOMAIN graph.edges :
                graph.edges[e].source # graph.nodes[FindRoot(graph)].name
          /\ ~graph.nodes[j].isRoot
          /\ RootMatches(graph, graph.nodes[j].name) = {}
          /\ DataRows[j].similarityPercent = 0

\* C19: for a node set without a root the formatter produces no CSV and
\* fails with the error 'No root artist found', whatever the edges.
C19_NoRootFails ==
    (Formatted /\ \A i \in DOMAIN graph.nodes : ~graph.nodes[i].isRoot) =>
        /\ csv = <<>>
        /\ thrown = NoRootMessage
        /\ exportStatus = 500

\* nodes and edges, none of the nodes the root
C19_Witness ==
    /\ Formatted
    /\ graph.nodes # <<>>
    /\ graph.edges # <<>>
    /\ \A i \in DOMAIN graph.nodes : ~graph.nodes[i].isRoot

\* the edges of a graph that start or end at the root node's name
RootEdges(g) ==
    LET rootName == g.nodes[FindRoot(g)].name
    IN {<<g.edges[e].source, g.edges[e].target, g.edges[e].weight>> :
           e \in {d \in DOMAIN g.edges :
                     g.edges[d].source = rootName \/ g.edges[d].target = rootName}}

\* C20: the graph GET /export/csv formats for the (root, depth, limit) of a
\* map request, no fetch having failed, has the node names and the
\* root-connecting edges of the graph POST /map returned, and each exported
\* node's similarity to the root is the weight of its root edge in the map
\* response.
C20_ExportMatchesMap ==
    (pc = "exported" /\ failures = 0) =>
        LET mapGraph == [nodes |-> nodes, edges |-> edges]
        IN /\ {graph.nodes[i].name : i \in DOMAIN graph.nodes} = NodeNames
           /\ RootEdges(graph) = RootEdges(mapGraph)
           /\ \A i \in DOMAIN graph.nodes :
                 \A e \in DOMAIN edges :
                     (edges[e].source = nodes[1].name
                         /\ edges[e].target = graph.nodes[i].name) =>
                         DataRows[i].similarityPercent = edges[e].weight

----------------------------------------------------------------------------
(* Properties of POST /expand *)

Expanded == pc = "done" /\ status = 200 /\ expandFetch # <<>>

\* C21: in a successful reply of POST /expand every edge starts and ends at
\* the name of a node of the same reply, and there is one edge for each
\* similar artist whose record fetch succeeded and none for the others.
C21_ExpandEdgesJoinNodes ==
    Expanded =>
        /\ \A e \in DOMAIN edges :
              /\ edges[e].source \in NodeNames
              /\ edges[e].target \in NodeNames
        /\ Len(edges) = Cardinality({i \in DOMAIN artistInfos : artistInfos[i].st = "ok"})
        /\ \A i \in DOMAIN artistInfos :
              artistInfos[i].st = "failed" =>
                  \A e \in DOMAIN edges : edges[e].match # expandSimilar[i].match
                                             \/ edges[e].target # expandSimilar[i].name

----------------------------------------------------------------------------
(* Ordering of a build *)

\* the n-th smallest element of a set of indices
NthOf(S, n) == CHOOSE i \in S : Cardinality({j \in S : j <= i}) = n

\* the first-hop results that became nodes, and the second-hop ones
FirstHopKept ==
    {i \in DOMAIN firstHopResults :
        /\ firstHopResults[i].st = "ok"
        /\ toLowerCase(firstHopResults[i].val.name) # toLowerCase(nodes[1].name)}

SecondHopKept == {k \in DOMAIN secondHopResults : secondHopResults[k].st = "ok"}

\* where the parent of candidate k stands among the sources, and where the
\* candidate stands in the similarity list of its parent
SourcePositions(k) ==
    {s \in DOMAIN firstHopArtists :
        firstHopArtists[s] = selectedSecondHopCandidates[k].parentNode}

ListPosition(k) ==
    LET c == selectedSecondHopCandidates[k]
        list == SimilarResult(c.parentNode.name, SecondHopFanOut)
    IN CHOOSE x \in DOMAIN list :
          list[x].name = c.artistName /\ list[x].match = c.parentSimilarity

\* C22: whatever the order in which the pending fetches of a build settled,
\* the returned graph lists the first-hop nodes and edges in the order of
\* the root's similarity list, followed by the second-hop nodes and edges in
\* the order of their sources and, for one source, of the source's list.
C22_OrderFollowsLists ==
    Returned =>
        LET h == Cardinality(FirstHopKept)
            m == Cardinality(SecondHopKept)
        IN /\ Len(nodes) = 1 + h + m
           /\ \A n \in 1..h :
                 LET i == NthOf(FirstHopKept, n)
                 IN /\ nodes[1 + n].name = firstHopResults[i].val.name
                    /\ edges[n].target = firstHopResults[i].val.name
                    /\ edges[n].weight = rootSimilar[i].match
           /\ \A n \in 1..m :
                 nodes[1 + h + n].name = secondHopResults[NthOf(SecondHopKept, n)].val.name
           /\ \A e, d \in (h + 1)..Len(edges) :
                 e < d => \E p, q \in (h + 2)..Len(nodes) :
                             /\ p <= q
                             /\ nodes[p].name = edges[e].target
                             /\ nodes[q].name = edges[d].target
           /\ \A k, j \in DOMAIN selectedSecondHopCandidates :
                 k < j =>
                    /\ \E s \in SourcePositions(k), t \in SourcePositions(j) : s <= t
                    /\ selectedSecondHopCandidates[k].parentNode
                          = selectedSecondHopCandidates[j].parentNode
                       => ListPosition(k) < ListPosition(j)

\* a returned two-hop graph, built while a fetch overtook an earlier one,
\* with two first-hop nodes and second-hop nodes of one source and of two
C22_Witness ==
    /\ Returned
    /\ overtaken
    /\ Cardinality(FirstHopKept) >= 2
    /\ \E k, j \in SecondHopKept :
          /\ k < j
          /\ selectedSecondHopCandidates[k].parentNode
                = selectedSecondHopCandidates[j].parentNode
    /\ \E k, j \in SecondHopKept :
          selectedSecondHopCandidates[k].parentNode
             # selectedSecondHopCandidates[j].parentNode

----------------------------------------------------------------------------
(* Input parsing *)

IsLastFmUrl(input) == \E p \in 1..Len(input) : UrlMatchesAt(input, p)

\* the inputs from which no non-empty artist name can be obtained
Unparseable(input) ==
    IF IsLastFmUrl(input)
    THEN decodeURIComponent(UrlCapture(input)) = URIError
    ELSE \A p \in 1..Len(input) : IsSpace(input[p])

\* C23: POST /map replies 400 and sends nothing upstream for an input that
\* is empty, only white space, or a profile URL whose name segment cannot be
\* percent-decoded; otherwise the parsed name is the decoded segment of the
\* URL with each '+' replaced by a space, or the trimmed bare name.
C23_InvalidInput ==
    pc # "start" =>
        /\ Unparseable(url) => (status = 400 /\ rootFetch = <<>>)
        /\ ~Unparseable(url) =>
              rootArtistName =
                 IF IsLastFmUrl(url)
                 THEN PlusToSpace(decodeURIComponent(UrlCapture(url)))
                 ELSE trim(url)

----------------------------------------------------------------------------
(* Properties of the simple builder *)

\* C24: in a graph the simple builder returns, for depth 1 and for depth 2,
\* every node other than the root is the target of an edge that starts at
\* the root.
C24_EveryNodeJoinsRoot ==
    (pc = "done" /\ status = 200) =>
        \A n \in DOMAIN nodes :
            ~nodes[n].isRoot =>
                \E e \in DOMAIN edges :
                    /\ edges[e].source = nodes[1].name
                    /\ edges[e].target = nodes[n].name

----------------------------------------------------------------------------
(* A failed similarity lookup of a source *)

\* the candidates a batch added to the selection
NewCandidates ==
    SubSeq(selectedSecondHopCandidates', Len(selectedSecondHopCandidates) + 1,
           Len(selectedSecondHopCandidates'))

\* the source of slot j of the current batch
SourceOf(j) == firstHopArtists[batchStart + j - 1]

\* an entry of a source's list that the selection may take
Eligible(entry, source) ==
    /\ toLowerCase(entry.name) \notin existingNames
    /\ toLowerCase(entry.name) # toLowerCase(source.name)

C25_Step ==
    /\ (pc = "batch" /\ \E j \in DOMAIN batchResults :
                            batchResults[j].st = "queued" /\ batchResults'[j].st = "failed")
          => (pc' = "batch" /\ status' = 0 /\ caught' = NoError
                /\ nodes' = nodes /\ edges' = edges)
    /\ (pc = "batch" /\ batchStart' # batchStart) =>
          /\ nodes' = nodes
          /\ edges' = edges
          /\ \A j \in DOMAIN batchResults :
                /\ \E n \in DOMAIN nodes : nodes[n] = SourceOf(j) /\ nodes[n].hopLevel = 1
                /\ \E e \in DOMAIN edges :
                      edges[e].source = nodes[1].name /\ edges[e].target = SourceOf(j).name
                /\ (/\ batchResults[j].st = "failed"
                    /\ \A i \in DOMAIN batchResults :
                          batchResults[i].st = "ok" => SourceOf(i) # SourceOf(j))
                   => \A n \in DOMAIN NewCandidates :
                         NewCandidates[n].parentNode # SourceOf(j)
                /\ batchResults[j].st = "ok" =>
                      \A x \in DOMAIN batchResults[j].val :
                          Eligible(batchResults[j].val[x], SourceOf(j)) =>
                             \/ toLowerCase(batchResults[j].val[x].name) \in globalSeenNames'
                             \/ Cardinality({n \in DOMAIN NewCandidates :
                                   NewCandidates[n].parentNode = SourceOf(j)}) >= maxPerSource
    /\ (pc = "hop2" /\ pc' = "done") =>
          /\ status' = 200
          /\ \A k \in DOMAIN secondHopResults :
                secondHopResults[k].st = "ok" =>
                   \E n \in DOMAIN nodes' :
                      nodes'[n].name = secondHopResults[k].val.name /\ nodes'[n].hopLevel = 2

\* C25: a failed similarity lookup of one first-hop source does not fail the
\* build: the source stays a first-hop node with its root edge and gives no
\* candidates, while the entries of every other source of the batch are
\* still selected, and every selected candidate that resolves is added.
C25_SourceFailureIsLocal == [][C25_Step]_vars

\* a returned two-hop graph whose last batch had a failed source, with a
\* second-hop node that came from another source of that batch
C25_Witness ==
    /\ Returned
    /\ depth = 2
    /\ \E j \in DOMAIN batchResults :
          /\ batchResults[j].st = "failed"
          /\ \E n \in DOMAIN nodes :
                nodes[n] = firstHopArtists[batchStart - batchSize + j - 1]
          /\ \E k \in DOMAIN secondHopResults :
                /\ secondHopResults[k].st = "ok"
                /\ selectedSecondHopCandidates[k].parentNode
                      # firstHopArtists[batchStart - batchSize + j - 1]
                /\ \E i \in DOMAIN batchResults :
                      /\ i # j
                      /\ firstHopArtists[batchStart - batchSize + i - 1]
                            = selectedSecondHopCandidates[k].parentNode

----------------------------------------------------------------------------
(* Progress of the Spotify gate *)

SettledCall(r) == r \in DOMAIN calls /\ calls[r].st \in {"resolved", "rejected"}

\* request r waits in the queue behind another request
QueuedBehind(r) ==
    \E i \in 2..Len(requestQueue) : requestQueue[i] = r

\* request r has been handed to axios.get
HandedOver(r) ==
    drainLoops # <<>> /\ drainLoops[1].pc \in {"flight", "cooldown"} /\ drainLoops[1].cur = r

\* C26: in the Spotify gate, every upstream call returning some response,
\* every enqueued request is eventually resolved or rejected, and a request
\* queued behind another one is eventually dispatched.
C26_SpotifyProgress ==
    \A r \in 1..MaxCalls :
        /\ (r \in DOMAIN calls) ~> SettledCall(r)
        /\ QueuedBehind(r) ~> (HandedOver(r) \/ SettledCall(r))

----------------------------------------------------------------------------
(* No request of the Last.fm gate is stranded *)

\* between two steps every pending request is in the queue or in flight, and
\* a non-empty queue has a drain loop running
Attended ==
    /\ requestQueue # <<>> => (processing /\ drainLoops # <<>>)
    /\ \A r \in DOMAIN calls :
          calls[r].st = "pending" =>
              \/ \E i \in DOMAIN requestQueue : requestQueue[i] = r
              \/ \E l \in DOMAIN drainLoops :
                    drainLoops[l].pc = "flight" /\ drainLoops[l].cur = r

\* a call has pushed a request in this step
Enqueues == Len(calls') = Len(calls) + 1 /\ calls'[Len(calls')].st = "pending"

C27_Step ==
    gate = "lastfm" =>
        /\ Attended
        /\ Attended'
        /\ (Enqueues /\ processing) =>
              /\ drainLoops' = drainLoops
              /\ requestQueue' = Append(requestQueue, Len(calls'))
        /\ (Enqueues /\ ~processing) =>
              /\ processing'
              /\ Len(drainLoops') = 1
              /\ \/ drainLoops'[1].pc = "flight" /\ drainLoops'[1].cur = Len(calls')
                 \/ drainLoops'[1].pc = "sleep" /\ requestQueue' = <<Len(calls')>>

\* C27: in the Last.fm gate no request is stranded: whenever the gate is
\* suspended a non-empty queue has a drain loop running and every pending
\* request is queued or in flight; a request pushed while the loop waits
\* joins that loop's queue, and a request pushed after the loop ended
\* starts a new loop.
C27_NoRequestStranded == [][C27_Step]_vars

\* a request in flight after an earlier one was settled, while a third
\* request, pushed meanwhile, waits in the queue for the running loop
C27_Witness ==
    /\ gate = "lastfm"
    /\ Len(calls) = 3
    /\ calls[1].st \in {"resolved", "rejected"}
    /\ Len(drainLoops) = 1
    /\ drainLoops[1].pc = "flight"
    /\ drainLoops[1].cur = 2
    /\ requestQueue = <<3>>
    /\ processing

----------------------------------------------------------------------------
(* Self-loops *)

\* C28: no edge of a returned graph joins a node to itself, letter case
\* ignored, also when the name an artist resolves to differs from the name
\* in the list it was taken from.
C28_NoSelfLoops ==
    Returned =>
        \A e \in DOMAIN edges :
            toLowerCase(edges[e].source) # toLowerCase(edges[e].target)

----------------------------------------------------------------------------
(* What a fetch leaves in the cache *)

\* two requests that differ at most in the letter case of the name
SameAsk(q1, q2) ==
    /\ q1.kind = q2.kind
    /\ q1.lim = q2.lim
    /\ toLowerCase(q1.name) = toLowerCase(q2.name)

\* the key of a request, spelled out
KeyText(q) ==
    IF q.kind = "info"
    THEN <<"i", "n", "f", "o", ":">> \o toLowerCase(q.name)
    ELSE <<"s", "i", "m", "i", "l", "a", "r", ":">> \o toLowerCase(q.name)
            \o <<":">> \o NumberToString(q.lim)

C29_Step ==
    gate = "lastfm" =>
        /\ \A r \in DOMAIN calls :
              /\ (calls[r].st = "pending" /\ calls'[r].st = "rejected") => cache' = cache
              /\ (calls[r].st = "pending" /\ calls'[r].st = "resolved") =>
                    /\ DOMAIN cache' = DOMAIN cache \cup {KeyText(calls[r].request)}
                    /\ cache'[KeyText(calls[r].request)] = calls'[r].val
                    /\ \A k \in DOMAIN cache :
                          k # KeyText(calls[r].request) => cache'[k] = cache[k]
        /\ Len(calls') = Len(calls) + 1 =>
              LET c == calls'[Len(calls')]
                  same == {r \in DOMAIN calls : SameAsk(calls[r].request, c.request)}
              IN /\ \A r \in same :
                        calls[r].st = "resolved" => (c.st = "hit" /\ c.val = calls[r].val)
                 /\ (/\ \E r \in same : calls[r].st = "rejected"
                     /\ \A r \in same : calls[r].st \in {"rejected", "pending"})
                       => (c.st = "pending" /\ KeyText(c.request) \notin DOMAIN cache)

----------------------------------------------------------------------------
(* The merged graph of the client *)

Merged == {x \in DOMAIN expands : expands[x].st = "merged"}

ShownIds == {graphData.nodes[n].id : n \in DOMAIN graphData.nodes}

\* C30: after any sequence of expands, two in flight at once included, no
\* two nodes of the client's graph have the same id, and the graph contains
\* the nodes and edges of every expand response that was merged.
C30_MergeKeepsEveryResponse ==
    Merged # {} =>
        /\ \A m, n \in DOMAIN graphData.nodes :
              graphData.nodes[m].id = graphData.nodes[n].id => m = n
        /\ \A x \in Merged :
              LET response == ExpandResponse(expands[x].artistName)
              IN /\ \A n \in DOMAIN response.nodes : response.nodes[n].id \in ShownIds
                 /\ \A e \in DOMAIN response.edges :
                       \E d \in DOMAIN graphData.edges : graphData.edges[d] = response.edges[e]

====
